---- MODULE Spec2Model ----
(***************************************************************************)
(* Credential-state and replay-prevention engine of mPass:                 *)
(*   MPassRegistryV2  (src/contracts/src/MPassRegistryV2.sol)              *)
(*   MPassVerifierV2  (src/unnamed/part_003), the proof gateway            *)
(*   MPassRegistry    (src/unnamed/part_000), the per-user registry        *)
(* Every external function is one action.  A Solidity call is atomic: it   *)
(* either runs to its end or reverts, and a revert discards every write    *)
(* and every event of the call.  Each function is therefore given as       *)
(*   <f>Res     the revert reason of the first failing require, or "ok";   *)
(*   <f>Events  the events the call emits;                                 *)
(*   <f>        the action: the writes when <f>Res is "ok", else nothing.  *)
(***************************************************************************)
EXTENDS Integers, Sequences, FiniteSets, TLC

\* ------------------------------------------------------------- bounds ---
\* bytes32 root values are 0..MaxRoot (0 is the value of an unset root)
MaxRoot == 1
\* credential commitments are 1..NumCommitments
NumCommitments == 2
\* event ids (scopes) are 0..MaxEventId; 0 is the global scope at the gateway
MaxEventId == 1
\* longest array given to a batch operation
MaxBatch == 2
\* age values are 0..MaxAge
MaxAge == 1
\* block.timestamp is 1..MaxTime
MaxTime == 2
\* private secrets 1..MaxSecret
MaxSecret == 2
\* depth of the fixture Merkle tree (2^Levels leaves)
Levels == 4
\* depth of the sparse revocation tree (keys 0..2^SmtLevels - 1)
SmtLevels == 2
\* root updates recorded in the event log
MaxUpdates == 3
\* Date.now() is 0..MaxClock
MaxClock == 1
\* MPassSBT mints token ids 1..MaxTokens
MaxTokens == 2

\* -------------------------------------------------- program constants ---
\* address(0)
ZeroAddr == 0
\* the deployer and an unprivileged account, as in the test fixture
OwnerAddr == 1
UserAddr == 3
\* address of the deployed MPassVerifierV2 (msg.sender of its registry calls)
GatewayAddr == 7
\* the nullifier of the test fixture (testNullifier)
TestNullifier == 1
\* address of a deployed Groth16 verifier contract
Groth16Addr == 9
\* addresses of two deployed MPassRegistryV2 contracts: the one given to the
\* gateway's constructor, and another one
RegistryAddr == 11
OtherRegistryAddr == 13
\* require(publicInputs.length >= 7)
AgeMinInputs == 7
\* require(proof.length >= 256); 32-byte words
ProofHeadBytes == 256
WordBytes == 32
\* the five outputs read from the end of a passport statement
PassportOutputs == 5
\* the offsets the production circuits add to eventId before hashing
JurisdictionOffset == 1000
AccreditedOffset == 2000
AMLOffset == 3000
\* if (history.length > 50) history.pop()
HistoryCap == 50
\* MPassSBT.CredentialType
AGE_18_PLUS == 0
AGE_21_PLUS == 1
JURISDICTION == 2
ACCREDITED == 3
AML_COMPLIANT == 4
KYC_FULL == 5
\* MPassRegistry: CRED_AGE, CRED_AML; the credential hash of its test fixture
CRED_AGE == 0
CRED_AML == 3
TestCredentialHash == 1

Callers == {OwnerAddr, UserAddr}
Addresses == Callers \cup {ZeroAddr}
Roots == 0..MaxRoot
Commitments == 1..NumCommitments
Nullifiers == {TestNullifier}
EventIds == 0..MaxEventId
Ages == 0..MaxAge
Batches == UNION {[1..k -> Commitments] : k \in 0..MaxBatch}
Times == 1..MaxTime
RegistryAddrs == {RegistryAddr, OtherRegistryAddr}
\* MPassRegistry: users, credential hashes, credential types (one past
\* CRED_AML included), expiry times
Users == {UserAddr}
CredentialHashes == {TestCredentialHash}
ValidCredentialTypes == CRED_AGE..CRED_AML
CredentialTypes == {CRED_AGE, CRED_AML, CRED_AML + 1}
Expiries == Times
\* the hashes issued where the order of issuance matters
IssuedHashes == {TestCredentialHash, TestCredentialHash + 1}

VARIABLES
    \* MPassRegistryV2
    owner, authorizedIssuers, authorizedUpdaters, roots,
    nullifierUsed, eventNullifierUsed, credentialExists, credentialRevoked,
    \* MPassVerifierV2
    verifierOwner, ageVerifier, passportVerifier,
    \* MPassVerifierV2.registry, and the state of every deployed
    \* MPassRegistryV2 the gateway does not point at; the MPassRegistryV2
    \* variables above are those of the contract at `registry`
    registry, detached,
    \* block.timestamp
    now,
    \* two verifications in flight (RaceSpec)
    phase, pending, outcome,
    \* MPassRegistry
    v1Owner, v1AuthorizedIssuers, credentials, userCredentialsByType, v1RevocationRoot,
    \* MPassAgeVerifier
    avNullifierUsed, registeredCredentials,
    \* the events emitted so far, in emission order (EventSpec)
    eventLog,
    \* the last run of a circuit template: its input and output signals (CircuitSpec)
    circuitRun,
    \* what the caller of the last call saw: function, input, revert reason
    \* or "ok", and the value returned
    lastCall,
    \* the browser: window.localStorage and the clock behind Date.now()
    localStorage, clock,
    \* MPassSBT (its owner is sbtOwner; _owners and _balances are ERC721's)
    sbtOwner, mPassVerifier, mPassRegistry, _tokenIdCounter, tokens, userToken,
    claims, commitmentToToken, _owners, _balances

registryVars == <<owner, authorizedIssuers, authorizedUpdaters, roots,
                  nullifierUsed, eventNullifierUsed, credentialExists, credentialRevoked>>
gatewayVars == <<verifierOwner, ageVerifier, passportVerifier, registry, detached>>
sysVars == <<registryVars, gatewayVars, now>>
raceVars == <<phase, pending, outcome>>
v1Vars == <<v1Owner, v1AuthorizedIssuers, credentials, userCredentialsByType,
            v1RevocationRoot>>
avVars == <<avNullifierUsed, registeredCredentials>>
appVars == <<localStorage, clock>>
sbtVars == <<sbtOwner, mPassVerifier, mPassRegistry, _tokenIdCounter, tokens, userToken,
             claims, commitmentToToken, _owners, _balances>>
extVars == <<appVars, sbtVars>>
restVars == <<avVars, eventLog, circuitRun, lastCall, extVars>>
vars == <<sysVars, raceVars, v1Vars, restVars>>

\* A mapping(K => bool) is the set of keys mapped to true.
\* eventNullifierUsed is a set of pairs <<eventId, nullifier>>.

\* The EVM's rule for a call: commit the writes of a call that ran to its end,
\* discard everything of a call that reverted.
Commit(res, writes) == IF res = "ok" THEN writes ELSE UNCHANGED sysVars

\* ======================================================= MPassRegistryV2 ==

_checkOwner(sender) == IF sender = owner THEN "ok" ELSE "Not owner"

\* faulty variant: the updater check in place of the issuer check
_checkIssuerOrUpdater(sender) ==
    IF sender \in authorizedUpdaters \/ sender \in authorizedIssuers
    THEN "ok" ELSE "Not authorized issuer"

_checkIssuer(sender) ==
    IF sender \in authorizedIssuers THEN "ok" ELSE "Not authorized issuer"

\* faulty variant: issuers are not accepted as updaters
_checkUpdaterOnly(sender) ==
    IF sender \in authorizedUpdaters THEN "ok" ELSE "Not authorized updater"

_checkUpdater(sender) ==
    IF sender \in authorizedUpdaters \/ sender \in authorizedIssuers
    THEN "ok" ELSE "Not authorized updater"

\* ---- admin ----
addIssuerRes(sender, issuer) == _checkOwner(sender)
addIssuerEvents(sender, issuer) ==
    IF addIssuerRes(sender, issuer) = "ok" THEN << <<"IssuerAdded", issuer>> >> ELSE << >>
addIssuer(sender, issuer) ==
    Commit(addIssuerRes(sender, issuer),
        /\ authorizedIssuers' = authorizedIssuers \cup {issuer}
        /\ UNCHANGED <<owner, authorizedUpdaters, roots, nullifierUsed, eventNullifierUsed,
                       credentialExists, credentialRevoked, gatewayVars, now>>)

removeIssuerRes(sender, issuer) == _checkOwner(sender)
removeIssuerEvents(sender, issuer) ==
    IF removeIssuerRes(sender, issuer) = "ok" THEN << <<"IssuerRemoved", issuer>> >> ELSE << >>
removeIssuer(sender, issuer) ==
    Commit(removeIssuerRes(sender, issuer),
        /\ authorizedIssuers' = authorizedIssuers \ {issuer}
        /\ UNCHANGED <<owner, authorizedUpdaters, roots, nullifierUsed, eventNullifierUsed,
                       credentialExists, credentialRevoked, gatewayVars, now>>)

addUpdaterRes(sender, updater) == _checkOwner(sender)
addUpdater(sender, updater) ==
    Commit(addUpdaterRes(sender, updater),
        /\ authorizedUpdaters' = authorizedUpdaters \cup {updater}
        /\ UNCHANGED <<owner, authorizedIssuers, roots, nullifierUsed, eventNullifierUsed,
                       credentialExists, credentialRevoked, gatewayVars, now>>)

removeUpdaterRes(sender, updater) == _checkOwner(sender)
removeUpdater(sender, updater) ==
    Commit(removeUpdaterRes(sender, updater),
        /\ authorizedUpdaters' = authorizedUpdaters \ {updater}
        /\ UNCHANGED <<owner, authorizedIssuers, roots, nullifierUsed, eventNullifierUsed,
                       credentialExists, credentialRevoked, gatewayVars, now>>)

\* faulty variant: address(0) is accepted as the new owner
transferOwnershipResNoZeroCheck(sender, newOwner) == _checkOwner(sender)
transferOwnershipRes(sender, newOwner) ==
    IF _checkOwner(sender) # "ok" THEN _checkOwner(sender)
    ELSE IF newOwner = ZeroAddr THEN "Invalid address"
    ELSE "ok"
transferOwnership(sender, newOwner) ==
    Commit(transferOwnershipRes(sender, newOwner),
        /\ owner' = newOwner
        /\ UNCHANGED <<authorizedIssuers, authorizedUpdaters, roots, nullifierUsed,
                       eventNullifierUsed, credentialExists, credentialRevoked,
                       gatewayVars, now>>)

\* ---- roots ----
updateRootsRes(sender, registryRoot, revocationRoot) == _checkUpdater(sender)
updateRootsEvents(sender, registryRoot, revocationRoot) ==
    IF updateRootsRes(sender, registryRoot, revocationRoot) = "ok"
    THEN << <<"RootsUpdated", registryRoot, revocationRoot, now>> >> ELSE << >>
\* faulty variant: the revocation root is left as it was
updateRootsKeepsRevocationRoot(sender, registryRoot, revocationRoot) ==
    Commit(updateRootsRes(sender, registryRoot, revocationRoot),
        /\ roots' = [roots EXCEPT !.registryRoot = registryRoot, !.updatedAt = now]
        /\ UNCHANGED <<owner, authorizedIssuers, authorizedUpdaters, nullifierUsed,
                       eventNullifierUsed, credentialExists, credentialRevoked,
                       gatewayVars, now>>)
\* faulty variant: the timestamp is cast to a type too narrow for it and wraps
updateRootsNarrowTimestamp(sender, registryRoot, revocationRoot) ==
    Commit(updateRootsRes(sender, registryRoot, revocationRoot),
        /\ roots' = [registryRoot |-> registryRoot, revocationRoot |-> revocationRoot,
                     updatedAt |-> now % MaxTime]
        /\ UNCHANGED <<owner, authorizedIssuers, authorizedUpdaters, nullifierUsed,
                       eventNullifierUsed, credentialExists, credentialRevoked,
                       gatewayVars, now>>)
updateRoots(sender, registryRoot, revocationRoot) ==
    Commit(updateRootsRes(sender, registryRoot, revocationRoot),
        /\ roots' = [registryRoot |-> registryRoot, revocationRoot |-> revocationRoot,
                     updatedAt |-> now]
        /\ UNCHANGED <<owner, authorizedIssuers, authorizedUpdaters, nullifierUsed,
                       eventNullifierUsed, credentialExists, credentialRevoked,
                       gatewayVars, now>>)

\* faulty variant: the two roots are returned in each other's place
getRootsSwapped == <<roots.revocationRoot, roots.registryRoot, roots.updatedAt>>
getRoots == <<roots.registryRoot, roots.revocationRoot, roots.updatedAt>>

\* ---- credentials ----
\* faulty variant: the duplicate check is missing
registerCredentialResNoDuplicateCheck(sender, commitment) == _checkIssuer(sender)
registerCredentialRes(sender, commitment) ==
    IF _checkIssuer(sender) # "ok" THEN _checkIssuer(sender)
    ELSE IF commitment \in credentialExists THEN "Already registered"
    ELSE "ok"
registerCredentialEvents(sender, commitment) ==
    IF registerCredentialRes(sender, commitment) = "ok"
    THEN << <<"CredentialRegistered", commitment, sender>> >> ELSE << >>
registerCredential(sender, commitment) ==
    Commit(registerCredentialRes(sender, commitment),
        /\ credentialExists' = credentialExists \cup {commitment}
        /\ UNCHANGED <<owner, authorizedIssuers, authorizedUpdaters, roots, nullifierUsed,
                       eventNullifierUsed, credentialRevoked, gatewayVars, now>>)

revokeCredentialRes(sender, commitment) ==
    IF _checkIssuer(sender) # "ok" THEN _checkIssuer(sender)
    ELSE IF commitment \notin credentialExists THEN "Not registered"
    ELSE IF commitment \in credentialRevoked THEN "Already revoked"
    ELSE "ok"
revokeCredentialEvents(sender, commitment) ==
    IF revokeCredentialRes(sender, commitment) = "ok"
    THEN << <<"CredentialRevoked", commitment, sender>> >> ELSE << >>
revokeCredential(sender, commitment) ==
    Commit(revokeCredentialRes(sender, commitment),
        /\ credentialRevoked' = credentialRevoked \cup {commitment}
        /\ UNCHANGED <<owner, authorizedIssuers, authorizedUpdaters, roots, nullifierUsed,
                       eventNullifierUsed, credentialExists, gatewayVars, now>>)

\* faulty variant: || for &&
isCredentialValidOr(commitment) ==
    commitment \in credentialExists \/ commitment \notin credentialRevoked
isCredentialValid(commitment) ==
    commitment \in credentialExists /\ commitment \notin credentialRevoked

\* ---- nullifiers ----
isNullifierUsed(nullifier) == nullifier \in nullifierUsed
isEventNullifierUsed(eventId, nullifier) == <<eventId, nullifier>> \in eventNullifierUsed

\* faulty variant: the require is missing
useNullifierResUnchecked(sender, nullifier) == "ok"
useNullifierRes(sender, nullifier) ==
    IF isNullifierUsed(nullifier) THEN "Nullifier already used" ELSE "ok"
useNullifierEvents(sender, nullifier) ==
    IF useNullifierRes(sender, nullifier) = "ok"
    THEN << <<"NullifierUsed", nullifier, sender>> >> ELSE << >>
\* faulty variant: the call succeeds without marking the nullifier
useNullifierNoWrite(sender, nullifier) ==
    Commit(useNullifierRes(sender, nullifier), UNCHANGED sysVars)
useNullifier(sender, nullifier) ==
    Commit(useNullifierRes(sender, nullifier),
        /\ nullifierUsed' = nullifierUsed \cup {nullifier}
        /\ UNCHANGED <<owner, authorizedIssuers, authorizedUpdaters, roots,
                       eventNullifierUsed, credentialExists, credentialRevoked,
                       gatewayVars, now>>)

useEventNullifierRes(sender, eventId, nullifier) ==
    IF isEventNullifierUsed(eventId, nullifier)
    THEN "Nullifier already used for this event" ELSE "ok"
useEventNullifierEvents(sender, eventId, nullifier) ==
    IF useEventNullifierRes(sender, eventId, nullifier) = "ok"
    THEN << <<"EventNullifierUsed", eventId, nullifier, sender>> >> ELSE << >>
\* faulty variant: the event-scoped call marks the global ledger as well
useEventNullifierAlsoGlobal(sender, eventId, nullifier) ==
    Commit(useEventNullifierRes(sender, eventId, nullifier),
        /\ eventNullifierUsed' = eventNullifierUsed \cup {<<eventId, nullifier>>}
        /\ nullifierUsed' = nullifierUsed \cup {nullifier}
        /\ UNCHANGED <<owner, authorizedIssuers, authorizedUpdaters, roots,
                       credentialExists, credentialRevoked, gatewayVars, now>>)
useEventNullifier(sender, eventId, nullifier) ==
    Commit(useEventNullifierRes(sender, eventId, nullifier),
        /\ eventNullifierUsed' = eventNullifierUsed \cup {<<eventId, nullifier>>}
        /\ UNCHANGED <<owner, authorizedIssuers, authorizedUpdaters, roots, nullifierUsed,
                       credentialExists, credentialRevoked, gatewayVars, now>>)

\* ---- batch operations: the loops, element by element ----
\* faulty variant: the event is emitted for every element
RECURSIVE batchRegisterLoopAlwaysEmits(_, _, _, _, _)
batchRegisterLoopAlwaysEmits(sender, commitments, i, exists, events) ==
    IF i > Len(commitments) THEN [exists |-> exists, events |-> events]
    ELSE batchRegisterLoopAlwaysEmits(sender, commitments, i + 1,
             exists \cup {commitments[i]},
             Append(events, <<"CredentialRegistered", commitments[i], sender>>))

RECURSIVE batchRegisterLoop(_, _, _, _, _)
batchRegisterLoop(sender, commitments, i, exists, events) ==
    IF i > Len(commitments) THEN [exists |-> exists, events |-> events]
    ELSE IF commitments[i] \notin exists
         THEN batchRegisterLoop(sender, commitments, i + 1, exists \cup {commitments[i]},
                  Append(events, <<"CredentialRegistered", commitments[i], sender>>))
         ELSE batchRegisterLoop(sender, commitments, i + 1, exists, events)

batchRegisterCredentialsRes(sender, commitments) == _checkIssuer(sender)
batchRegisterCredentialsEvents(sender, commitments) ==
    IF batchRegisterCredentialsRes(sender, commitments) = "ok"
    THEN batchRegisterLoop(sender, commitments, 1, credentialExists, << >>).events
    ELSE << >>
batchRegisterCredentials(sender, commitments) ==
    Commit(batchRegisterCredentialsRes(sender, commitments),
        /\ credentialExists' =
               batchRegisterLoop(sender, commitments, 1, credentialExists, << >>).exists
        /\ UNCHANGED <<owner, authorizedIssuers, authorizedUpdaters, roots, nullifierUsed,
                       eventNullifierUsed, credentialRevoked, gatewayVars, now>>)

\* faulty variant: the loop does not look at credentialExists
RECURSIVE batchRevokeLoopNoExistsCheck(_, _, _, _, _)
batchRevokeLoopNoExistsCheck(sender, commitments, i, revoked, events) ==
    IF i > Len(commitments) THEN [revoked |-> revoked, events |-> events]
    ELSE IF commitments[i] \notin revoked
         THEN batchRevokeLoopNoExistsCheck(sender, commitments, i + 1,
                  revoked \cup {commitments[i]},
                  Append(events, <<"CredentialRevoked", commitments[i], sender>>))
         ELSE batchRevokeLoopNoExistsCheck(sender, commitments, i + 1, revoked, events)
RECURSIVE batchRevokeLoop(_, _, _, _, _)
batchRevokeLoop(sender, commitments, i, revoked, events) ==
    IF i > Len(commitments) THEN [revoked |-> revoked, events |-> events]
    ELSE IF commitments[i] \in credentialExists /\ commitments[i] \notin revoked
         THEN batchRevokeLoop(sender, commitments, i + 1, revoked \cup {commitments[i]},
                  Append(events, <<"CredentialRevoked", commitments[i], sender>>))
         ELSE batchRevokeLoop(sender, commitments, i + 1, revoked, events)

\* faulty variant: an element already revoked fails the batch, as it fails
\* revokeCredential
batchRevokeCredentialsResStrict(sender, commitments) ==
    IF _checkIssuer(sender) # "ok" THEN _checkIssuer(sender)
    ELSE IF \E i \in 1..Len(commitments) : commitments[i] \in credentialRevoked
         THEN "Already revoked"
    ELSE "ok"
batchRevokeCredentialsRes(sender, commitments) == _checkIssuer(sender)
batchRevokeCredentialsEvents(sender, commitments) ==
    IF batchRevokeCredentialsRes(sender, commitments) = "ok"
    THEN batchRevokeLoop(sender, commitments, 1, credentialRevoked, << >>).events
    ELSE << >>
batchRevokeCredentials(sender, commitments) ==
    Commit(batchRevokeCredentialsRes(sender, commitments),
        /\ credentialRevoked' =
               batchRevokeLoop(sender, commitments, 1, credentialRevoked, << >>).revoked
        /\ UNCHANGED <<owner, authorizedIssuers, authorizedUpdaters, roots, nullifierUsed,
                       eventNullifierUsed, credentialExists, gatewayVars, now>>)

\* ======================================================= MPassVerifierV2 ==
\* A proof is the calldata of a call: its length in bytes, the 32-byte words
\* that follow the 256 bytes of (a, b, c), and what a Groth16 verifier
\* contract answers for it.
Proof(length, words, accept) == [length |-> length, words |-> words, accept |-> accept]

\* _decodeProof: the revert reason, and the public inputs it returns
_decodeProofRes(proof) == IF proof.length >= ProofHeadBytes THEN "ok" ELSE "Proof too short"
_decodeProof(proof) ==
    LET inputsLength == (proof.length - ProofHeadBytes) \div WordBytes
    IN  [i \in 1..inputsLength |-> proof.words[i]]

\* _verifyGroth16: a staticcall to the verifier; an address without code
\* answers with empty return data, which counts as false.
_verifyGroth16(verifier, proof) == verifier = Groth16Addr /\ proof.accept

\* ---- admin ----
setVerifiersRes(sender, _ageVerifier, _passportVerifier) ==
    IF sender = verifierOwner THEN "ok" ELSE "Not owner"
setVerifiers(sender, _ageVerifier, _passportVerifier) ==
    Commit(setVerifiersRes(sender, _ageVerifier, _passportVerifier),
        /\ ageVerifier' = _ageVerifier
        /\ passportVerifier' = _passportVerifier
        /\ UNCHANGED <<registryVars, verifierOwner, registry, detached, now>>)

verifierTransferOwnershipRes(sender, newOwner) ==
    IF sender # verifierOwner THEN "Not owner"
    ELSE IF newOwner = ZeroAddr THEN "Invalid address"
    ELSE "ok"
verifierTransferOwnership(sender, newOwner) ==
    Commit(verifierTransferOwnershipRes(sender, newOwner),
        /\ verifierOwner' = newOwner
        /\ UNCHANGED <<registryVars, ageVerifier, passportVerifier, registry, detached, now>>)

\* setRegistry: from now on the gateway calls the contract at _registry.  The
\* state of the contract it leaves is kept, that of the contract it turns to
\* is taken up where that contract stands.
setRegistryRes(sender, _registry) ==
    IF sender = verifierOwner THEN "ok" ELSE "Not owner"
setRegistry(sender, _registry) ==
    Commit(setRegistryRes(sender, _registry),
        /\ registry' = _registry
        /\ IF _registry = registry
           THEN UNCHANGED <<registryVars, detached>>
           ELSE /\ detached' = [detached EXCEPT ![registry] = registryVars]
                /\ owner' = detached[_registry][1]
                /\ authorizedIssuers' = detached[_registry][2]
                /\ authorizedUpdaters' = detached[_registry][3]
                /\ roots' = detached[_registry][4]
                /\ nullifierUsed' = detached[_registry][5]
                /\ eventNullifierUsed' = detached[_registry][6]
                /\ credentialExists' = detached[_registry][7]
                /\ credentialRevoked' = detached[_registry][8]
        /\ UNCHANGED <<verifierOwner, ageVerifier, passportVerifier, now>>)

\* ---- the nullifier step shared by both entry points (the if/else at the
\* end of each): the gateway's own check, then the registry call, whose
\* revert would propagate.  alreadyUsedForEvent is the entry point's reason.
consumeRes(eventId, nullifier, alreadyUsedForEvent) ==
    IF eventId = 0
    THEN IF isNullifierUsed(nullifier) THEN "Nullifier already used"
         ELSE useNullifierRes(GatewayAddr, nullifier)
    ELSE IF isEventNullifierUsed(eventId, nullifier) THEN alreadyUsedForEvent
         ELSE useEventNullifierRes(GatewayAddr, eventId, nullifier)
consume(eventId, nullifier) ==
    IF eventId = 0
    THEN useNullifier(GatewayAddr, nullifier)
    ELSE useEventNullifier(GatewayAddr, eventId, nullifier)
consumeEvents(eventId, nullifier) ==
    IF eventId = 0
    THEN useNullifierEvents(GatewayAddr, nullifier)
    ELSE useEventNullifierEvents(GatewayAddr, eventId, nullifier)

\* ---- verifyAgeWithNullifier ----
\* public inputs (Solidity index + 1):
\*   [minAge, currentYear, currentMonth, currentDay, registryRoot, revocationRoot,
\*    eventId, ..., nullifier, blindedCommitment]
ageNullifier(publicInputs) == publicInputs[Len(publicInputs) - 1]
ageBlindedCommitment(publicInputs) == publicInputs[Len(publicInputs)]

\* faulty variant: the answer of the verifier contract is not required
verifyAgeWithNullifierResIgnoresOracle(sender, minAge, eventId, proof) ==
    IF ageVerifier = ZeroAddr THEN "Age verifier not set"
    ELSE IF _decodeProofRes(proof) # "ok" THEN _decodeProofRes(proof)
    ELSE LET publicInputs == _decodeProof(proof) IN
         IF ~(Len(publicInputs) >= AgeMinInputs) THEN "Invalid public inputs"
         ELSE IF ~(publicInputs[1] >= minAge) THEN "Age below minimum"
         ELSE IF publicInputs[5] # getRoots[1] THEN "Invalid registry root"
         ELSE IF publicInputs[6] # getRoots[2] THEN "Invalid revocation root"
         ELSE IF publicInputs[7] # eventId THEN "Event ID mismatch"
         ELSE consumeRes(eventId, ageNullifier(publicInputs),
                         "Nullifier already used for event")
\* faulty variant: roots are fresh only within the block that published them
verifyAgeWithNullifierResSameBlockOnly(sender, minAge, eventId, proof) ==
    IF ageVerifier = ZeroAddr THEN "Age verifier not set"
    ELSE IF _decodeProofRes(proof) # "ok" THEN _decodeProofRes(proof)
    ELSE LET publicInputs == _decodeProof(proof) IN
         IF ~(Len(publicInputs) >= AgeMinInputs) THEN "Invalid public inputs"
         ELSE IF ~(publicInputs[1] >= minAge) THEN "Age below minimum"
         ELSE IF publicInputs[5] # getRoots[1] \/ getRoots[3] # now
              THEN "Invalid registry root"
         ELSE IF publicInputs[6] # getRoots[2] THEN "Invalid revocation root"
         ELSE IF publicInputs[7] # eventId THEN "Event ID mismatch"
         ELSE IF ~_verifyGroth16(ageVerifier, proof) THEN "Invalid proof"
         ELSE consumeRes(eventId, ageNullifier(_decodeProof(proof)),
                         "Nullifier already used for event")
\* faulty variant: no statement is accepted while a credential is revoked in
\* the registry's map
verifyAgeWithNullifierResChecksRevoked(sender, minAge, eventId, proof) ==
    IF ageVerifier = ZeroAddr THEN "Age verifier not set"
    ELSE IF _decodeProofRes(proof) # "ok" THEN _decodeProofRes(proof)
    ELSE LET publicInputs == _decodeProof(proof) IN
         IF ~(Len(publicInputs) >= AgeMinInputs) THEN "Invalid public inputs"
         ELSE IF ~(publicInputs[1] >= minAge) THEN "Age below minimum"
         ELSE IF publicInputs[5] # getRoots[1] THEN "Invalid registry root"
         ELSE IF publicInputs[6] # getRoots[2] THEN "Invalid revocation root"
         ELSE IF publicInputs[7] # eventId THEN "Event ID mismatch"
         ELSE IF ~_verifyGroth16(ageVerifier, proof) THEN "Invalid proof"
         ELSE IF credentialRevoked # {} THEN "Credential revoked"
         ELSE consumeRes(eventId, ageNullifier(_decodeProof(proof)),
                         "Nullifier already used for event")
\* faulty variant: the threshold of the statement is not compared with minAge
verifyAgeWithNullifierResNoThreshold(sender, minAge, eventId, proof) ==
    IF ageVerifier = ZeroAddr THEN "Age verifier not set"
    ELSE IF _decodeProofRes(proof) # "ok" THEN _decodeProofRes(proof)
    ELSE LET publicInputs == _decodeProof(proof) IN
         IF ~(Len(publicInputs) >= AgeMinInputs) THEN "Invalid public inputs"
         ELSE IF publicInputs[5] # getRoots[1] THEN "Invalid registry root"
         ELSE IF publicInputs[6] # getRoots[2] THEN "Invalid revocation root"
         ELSE IF publicInputs[7] # eventId THEN "Event ID mismatch"
         ELSE IF ~_verifyGroth16(ageVerifier, proof) THEN "Invalid proof"
         ELSE consumeRes(eventId, ageNullifier(_decodeProof(proof)),
                         "Nullifier already used for event")
verifyAgeWithNullifierRes(sender, minAge, eventId, proof) ==
    IF ageVerifier = ZeroAddr THEN "Age verifier not set"
    ELSE IF _decodeProofRes(proof) # "ok" THEN _decodeProofRes(proof)
    ELSE LET publicInputs == _decodeProof(proof) IN
         IF ~(Len(publicInputs) >= AgeMinInputs) THEN "Invalid public inputs"
         ELSE IF ~(publicInputs[1] >= minAge) THEN "Age below minimum"
         ELSE IF publicInputs[5] # getRoots[1] THEN "Invalid registry root"
         ELSE IF publicInputs[6] # getRoots[2] THEN "Invalid revocation root"
         ELSE IF publicInputs[7] # eventId THEN "Event ID mismatch"
         ELSE IF ~_verifyGroth16(ageVerifier, proof) THEN "Invalid proof"
         ELSE consumeRes(eventId, ageNullifier(publicInputs),
                         "Nullifier already used for event")
\* faulty variant: the verification event carries the gateway's address in
\* place of the caller
verifyAgeWithNullifierEventsWrongCaller(sender, minAge, eventId, proof) ==
    IF verifyAgeWithNullifierRes(sender, minAge, eventId, proof) = "ok"
    THEN LET nullifier == ageNullifier(_decodeProof(proof)) IN
         consumeEvents(eventId, nullifier)
             \o << <<"ProofVerified", GatewayAddr, 0, nullifier, eventId>> >>
    ELSE << >>
verifyAgeWithNullifierEvents(sender, minAge, eventId, proof) ==
    IF verifyAgeWithNullifierRes(sender, minAge, eventId, proof) = "ok"
    THEN LET nullifier == ageNullifier(_decodeProof(proof)) IN
         consumeEvents(eventId, nullifier)
             \o << <<"ProofVerified", sender, 0, nullifier, eventId>> >>
    ELSE << >>
\* faulty variant: the nullifier is consumed before the proof is checked, and a
\* rejected proof is reported without undoing it
verifyAgeWithNullifierConsumeFirst(sender, minAge, eventId, proof) ==
    IF verifyAgeWithNullifierRes(sender, minAge, eventId, proof) \in {"ok", "Invalid proof"}
    THEN consume(eventId, ageNullifier(_decodeProof(proof)))
    ELSE UNCHANGED sysVars
verifyAgeWithNullifier(sender, minAge, eventId, proof) ==
    Commit(verifyAgeWithNullifierRes(sender, minAge, eventId, proof),
        consume(eventId, ageNullifier(_decodeProof(proof))))

\* ---- verifyPassportDisclosure ----
\* public inputs: [registryRoot, revocationRoot, ..., nullifier, commitment,
\*                 disclosedNationality, disclosedAgeOver, disclosedGender]
\* An index past the end, or a length below 5, is a Panic, which reverts.
passportNullifier(publicInputs) == publicInputs[Len(publicInputs) - 4]

\* faulty variant: the revocation root is not compared
verifyPassportDisclosureResNoRevocationRoot(sender, eventId, proof) ==
    IF passportVerifier = ZeroAddr THEN "Passport verifier not set"
    ELSE IF _decodeProofRes(proof) # "ok" THEN _decodeProofRes(proof)
    ELSE LET publicInputs == _decodeProof(proof) IN
         IF Len(publicInputs) < 1 THEN "Panic"
         ELSE IF publicInputs[1] # getRoots[1] THEN "Invalid registry root"
         ELSE IF ~_verifyGroth16(passportVerifier, proof) THEN "Invalid proof"
         ELSE IF Len(publicInputs) < 5 THEN "Panic"
         ELSE consumeRes(eventId, passportNullifier(publicInputs),
                         "Nullifier used for event")
verifyPassportDisclosureRes(sender, eventId, proof) ==
    IF passportVerifier = ZeroAddr THEN "Passport verifier not set"
    ELSE IF _decodeProofRes(proof) # "ok" THEN _decodeProofRes(proof)
    ELSE LET publicInputs == _decodeProof(proof) IN
         IF Len(publicInputs) < 1 THEN "Panic"
         ELSE IF publicInputs[1] # getRoots[1] THEN "Invalid registry root"
         ELSE IF Len(publicInputs) < 2 THEN "Panic"
         ELSE IF publicInputs[2] # getRoots[2] THEN "Invalid revocation root"
         ELSE IF ~_verifyGroth16(passportVerifier, proof) THEN "Invalid proof"
         ELSE IF Len(publicInputs) < 5 THEN "Panic"
         ELSE consumeRes(eventId, passportNullifier(publicInputs),
                         "Nullifier used for event")
verifyPassportDisclosureEvents(sender, eventId, proof) ==
    IF verifyPassportDisclosureRes(sender, eventId, proof) = "ok"
    THEN LET nullifier == passportNullifier(_decodeProof(proof)) IN
         consumeEvents(eventId, nullifier)
             \o << <<"ProofVerified", sender, 1, nullifier, eventId>> >>
    ELSE << >>
verifyPassportDisclosure(sender, eventId, proof) ==
    Commit(verifyPassportDisclosureRes(sender, eventId, proof),
        consume(eventId, passportNullifier(_decodeProof(proof))))

\* ---- verifyProofOnly: a view function ----
\* faulty variant: an accepted proof marks the statement's nullifier
verifyProofOnlyConsumes(verifier, proof) ==
    IF _decodeProofRes(proof) = "ok" /\ _verifyGroth16(verifier, proof)
       /\ Len(_decodeProof(proof)) >= AgeMinInputs
    THEN useNullifier(GatewayAddr, ageNullifier(_decodeProof(proof)))
    ELSE UNCHANGED sysVars
verifyProofOnlyRes(verifier, proof) == _decodeProofRes(proof)
verifyProofOnlyReturn(verifier, proof) == _verifyGroth16(verifier, proof)
verifyProofOnly(verifier, proof) == UNCHANGED sysVars

\* ---- the statements and proofs offered to the gateway ----
\* The slots the gateway never reads (dates, disclosed values, blinded
\* commitment) hold 0.  Prefix cuts a statement short.
Prefix(seq, k) == [i \in 1..k |-> seq[i]]
ProofOf(words, accept) == Proof(ProofHeadBytes + WordBytes * Len(words), words, accept)
ShortProof == Proof(ProofHeadBytes - 1, << >>, TRUE)

AgeStatement(threshold, registryRoot, revocationRoot, scope, nullifier) ==
    <<threshold, 0, 0, 0, registryRoot, revocationRoot, scope, nullifier, 0>>
AgeStatements ==
    {AgeStatement(t, r, v, e, n) : t \in Ages, r \in Roots, v \in Roots,
                                   e \in EventIds, n \in Nullifiers}
AgeProofs ==
    {ProofOf(st, acc) : st \in AgeStatements, acc \in BOOLEAN}
    \cup {ProofOf(Prefix(st, AgeMinInputs - 1), TRUE) : st \in AgeStatements}
    \cup {ShortProof}

\* [registryRoot, revocationRoot, eventId, currentTimestamp, nullifier, commitment,
\*  disclosedNationality, disclosedAgeOver, disclosedGender]
PassportStatement(registryRoot, revocationRoot, scope, nullifier) ==
    <<registryRoot, revocationRoot, scope, 0, nullifier, 0, 0, 0, 0>>
PassportStatements ==
    {PassportStatement(r, v, e, n) : r \in Roots, v \in Roots,
                                     e \in EventIds, n \in Nullifiers}
PassportProofs ==
    {ProofOf(st, acc) : st \in PassportStatements, acc \in BOOLEAN}
    \cup {ProofOf(Prefix(st, PassportOutputs - 1), TRUE) : st \in PassportStatements}
    \cup {ShortProof}

\* Statements that stop where the gateway's own length checks stop: an age
\* statement of exactly AgeMinInputs fields, a passport statement of exactly
\* PassportOutputs fields.
AgeStatementFields == Len(AgeStatement(0, 0, 0, 0, 0))
PassportStatementFields == Len(PassportStatement(0, 0, 0, 0))
TruncatedAgeProofs ==
    {ProofOf(Prefix(st, AgeMinInputs), acc) : st \in AgeStatements, acc \in BOOLEAN}
TruncatedPassportProofs ==
    {ProofOf(Prefix(st, PassportOutputs), acc) : st \in PassportStatements,
                                                acc \in BOOLEAN}

VerifierAddrs == {ZeroAddr, Groth16Addr}

\* ========================================================= MPassRegistry ==
\* credentials[user][credentialHash] is credentials[<<user, credentialHash>>];
\* a slot never written holds the zero struct.
NoCredential ==
    [credentialHash |-> 0, credentialType |-> 0, issuedAt |-> 0, expiresAt |-> 0,
     revoked |-> FALSE]

V1Commit(res, writes) == IF res = "ok" THEN writes ELSE UNCHANGED v1Vars

v1OnlyOwner(sender) == IF sender = v1Owner THEN "ok" ELSE "Not owner"
v1OnlyIssuer(sender) ==
    IF sender \in v1AuthorizedIssuers THEN "ok" ELSE "Not authorized issuer"

v1AddIssuerRes(sender, issuer) == v1OnlyOwner(sender)
v1AddIssuer(sender, issuer) ==
    V1Commit(v1AddIssuerRes(sender, issuer),
        /\ v1AuthorizedIssuers' = v1AuthorizedIssuers \cup {issuer}
        /\ UNCHANGED <<v1Owner, credentials, userCredentialsByType, v1RevocationRoot>>)

v1RemoveIssuerRes(sender, issuer) == v1OnlyOwner(sender)
v1RemoveIssuer(sender, issuer) ==
    V1Commit(v1RemoveIssuerRes(sender, issuer),
        /\ v1AuthorizedIssuers' = v1AuthorizedIssuers \ {issuer}
        /\ UNCHANGED <<v1Owner, credentials, userCredentialsByType, v1RevocationRoot>>)

issueCredentialRes(sender, user, credentialHash, credentialType, expiresAt) ==
    IF v1OnlyIssuer(sender) # "ok" THEN v1OnlyIssuer(sender)
    ELSE IF ~(credentialType <= CRED_AML) THEN "Invalid credential type"
    ELSE IF ~(expiresAt > now) THEN "Already expired"
    ELSE IF credentials[<<user, credentialHash>>].issuedAt # 0 THEN "Credential exists"
    ELSE "ok"
issueCredentialEvents(sender, user, credentialHash, credentialType, expiresAt) ==
    IF issueCredentialRes(sender, user, credentialHash, credentialType, expiresAt) = "ok"
    THEN << <<"CredentialIssued", user, credentialHash, credentialType, expiresAt>> >>
    ELSE << >>
\* faulty variant: the hash is put at the front of the user's list
issueCredentialPrepends(sender, user, credentialHash, credentialType, expiresAt) ==
    V1Commit(issueCredentialRes(sender, user, credentialHash, credentialType, expiresAt),
        /\ credentials' = [credentials EXCEPT ![<<user, credentialHash>>] =
               [credentialHash |-> credentialHash, credentialType |-> credentialType,
                issuedAt |-> now, expiresAt |-> expiresAt, revoked |-> FALSE]]
        /\ userCredentialsByType' =
               [userCredentialsByType EXCEPT ![<<user, credentialType>>] =
                    <<credentialHash>> \o @]
        /\ UNCHANGED <<v1Owner, v1AuthorizedIssuers, v1RevocationRoot>>)
issueCredential(sender, user, credentialHash, credentialType, expiresAt) ==
    V1Commit(issueCredentialRes(sender, user, credentialHash, credentialType, expiresAt),
        /\ credentials' = [credentials EXCEPT ![<<user, credentialHash>>] =
               [credentialHash |-> credentialHash, credentialType |-> credentialType,
                issuedAt |-> now, expiresAt |-> expiresAt, revoked |-> FALSE]]
        /\ userCredentialsByType' =
               [userCredentialsByType EXCEPT ![<<user, credentialType>>] =
                    Append(@, credentialHash)]
        /\ UNCHANGED <<v1Owner, v1AuthorizedIssuers, v1RevocationRoot>>)

v1RevokeCredentialRes(sender, user, credentialHash) ==
    IF v1OnlyIssuer(sender) # "ok" THEN v1OnlyIssuer(sender)
    ELSE IF credentials[<<user, credentialHash>>].issuedAt = 0 THEN "Credential not found"
    ELSE IF credentials[<<user, credentialHash>>].revoked THEN "Already revoked"
    ELSE "ok"
v1RevokeCredentialEvents(sender, user, credentialHash) ==
    IF v1RevokeCredentialRes(sender, user, credentialHash) = "ok"
    THEN << <<"CredentialRevoked", user, credentialHash>> >> ELSE << >>
v1RevokeCredential(sender, user, credentialHash) ==
    V1Commit(v1RevokeCredentialRes(sender, user, credentialHash),
        /\ credentials' = [credentials EXCEPT ![<<user, credentialHash>>].revoked = TRUE]
        /\ UNCHANGED <<v1Owner, v1AuthorizedIssuers, userCredentialsByType,
                       v1RevocationRoot>>)

updateRevocationRootRes(sender, newRoot) == v1OnlyIssuer(sender)
updateRevocationRoot(sender, newRoot) ==
    V1Commit(updateRevocationRootRes(sender, newRoot),
        /\ v1RevocationRoot' = newRoot
        /\ UNCHANGED <<v1Owner, v1AuthorizedIssuers, credentials, userCredentialsByType>>)

\* faulty variant: a credential is still valid at the second it expires
v1IsCredentialValidAtExpiry(user, credentialHash) ==
    LET cred == credentials[<<user, credentialHash>>] IN
    cred.issuedAt # 0 /\ ~cred.revoked /\ cred.expiresAt >= now
v1IsCredentialValid(user, credentialHash) ==
    LET cred == credentials[<<user, credentialHash>>] IN
    cred.issuedAt # 0 /\ ~cred.revoked /\ cred.expiresAt > now

getUserCredentials(user, credentialType) == userCredentialsByType[<<user, credentialType>>]
getCredential(user, credentialHash) == credentials[<<user, credentialHash>>]

v1TransferOwnershipRes(sender, newOwner) ==
    IF v1OnlyOwner(sender) # "ok" THEN v1OnlyOwner(sender)
    ELSE IF newOwner = ZeroAddr THEN "Invalid address"
    ELSE "ok"
v1TransferOwnership(sender, newOwner) ==
    V1Commit(v1TransferOwnershipRes(sender, newOwner),
        /\ v1Owner' = newOwner
        /\ UNCHANGED <<v1AuthorizedIssuers, credentials, userCredentialsByType,
                       v1RevocationRoot>>)

\* ---- block.timestamp ----
\* A later block: time moves on, no contract state changes.
Tick ==
    /\ now < MaxTime
    /\ now' = now + 1
    /\ UNCHANGED <<registryVars, gatewayVars, raceVars, v1Vars, restVars>>

\* ====================================================== MPassAgeVerifier ==
\* The stand-alone age verifier: its own nullifier ledger and its own
\* commitment registry.  The Groth16Verifier it deploys answers accept for a
\* proof and its public signals.
AvCommit(res, writes) == IF res = "ok" THEN writes ELSE UNCHANGED avVars

\* _pubSignals (Solidity index + 1):
\*   [commitment, nullifier, ageValid, currentYear, currentMonth, currentDay,
\*    minAge, eventId]
PubSignals(commitment, nullifier, ageValid, minAge, eventId) ==
    <<commitment, nullifier, ageValid, 0, 0, 0, minAge, eventId>>

avRegisterCredentialRes(sender, commitment) ==
    IF commitment \in registeredCredentials THEN "Already registered" ELSE "ok"
avRegisterCredential(sender, commitment) ==
    AvCommit(avRegisterCredentialRes(sender, commitment),
        /\ registeredCredentials' = registeredCredentials \cup {commitment}
        /\ UNCHANGED avNullifierUsed)

\* faulty variant: the ledger is not consulted
verifyAgeProofResNoLedgerCheck(sender, _pubSignals, accept) ==
    IF _pubSignals[3] # 1 THEN "Age requirement not met" ELSE "ok"
\* The require on ageValid comes after the write and the events; when it
\* fails the call reverts and both are discarded.
verifyAgeProofRes(sender, _pubSignals, accept) ==
    LET nullifier == _pubSignals[2]
        ageValid == _pubSignals[3]
    IN  IF nullifier \in avNullifierUsed THEN "Nullifier already used"
        ELSE IF ageValid # 1 THEN "Age requirement not met"
        ELSE "ok"
\* the value of `valid` a call that runs to its end returns
verifyAgeProofReturn(sender, _pubSignals, accept) == accept
verifyAgeProofEvents(sender, _pubSignals, accept) ==
    IF verifyAgeProofRes(sender, _pubSignals, accept) = "ok" /\ accept
    THEN << <<"NullifierConsumed", _pubSignals[2]>>,
            <<"AgeVerified", _pubSignals[2], _pubSignals[7], _pubSignals[8]>> >>
    ELSE << >>
verifyAgeProof(sender, _pubSignals, accept) ==
    AvCommit(verifyAgeProofRes(sender, _pubSignals, accept),
        /\ avNullifierUsed' = IF accept THEN avNullifierUsed \cup {_pubSignals[2]}
                                        ELSE avNullifierUsed
        /\ UNCHANGED registeredCredentials)

\* a view function
avVerifyProofOnlyReturn(_pubSignals, accept) == accept
avVerifyProofOnly(_pubSignals, accept) == UNCHANGED avVars

avIsNullifierUsed(nullifier) == nullifier \in avNullifierUsed
isCredentialRegistered(commitment) == commitment \in registeredCredentials

\* ---- what a caller sees of a call ----
NoCall == [fn |-> "none"]
Returned(value) == IF value THEN "true" ELSE "false"
Sees(fn, input, res, ret) ==
    lastCall' = [fn |-> fn, input |-> input, res |-> res,
                 ret |-> IF res = "ok" THEN ret ELSE "reverted"]

\* ============================================================== MPassSBT ==
\* The soul-bound token.  Its verifier is the contract at GatewayAddr.  The
\* ERC721 base contract keeps _owners and _balances; _ownerOf reads _owners.
TokenIds == 0..(MaxTokens + 1)
Topics == AGE_18_PLUS..KYC_FULL
SbtSenders == {OwnerAddr, UserAddr, GatewayAddr}
SbtCommit(res, writes) == IF res = "ok" THEN writes ELSE UNCHANGED sbtVars
SbtSees(fn, input, res, ret) ==
    lastCall' = [fn |-> fn, input |-> input, res |-> res,
                 ret |-> IF res = "ok" THEN ret ELSE 0]
NoToken == [holder |-> ZeroAddr, credentialTypes |-> << >>, mintedAt |-> 0, locked |-> FALSE]
NoClaim == [topic |-> 0, scheme |-> 0, issuer |-> ZeroAddr, commitment |-> 0,
            nullifier |-> 0, issuedAt |-> 0, expiresAt |-> 0]
_ownerOf(tokenId) == _owners[tokenId]
onlyOwner(sender) == IF sender = sbtOwner THEN "ok" ELSE "Not owner"
onlyVerifier(sender) == IF sender = mPassVerifier THEN "ok" ELSE "Not verifier"

sbtSetVerifier(sender, _verifier) ==
    /\ SbtSees("MPassSBT.setVerifier", <<_verifier>>, onlyOwner(sender), 0)
    /\ SbtCommit(onlyOwner(sender),
        /\ mPassVerifier' = _verifier
        /\ UNCHANGED <<sbtOwner, mPassRegistry, _tokenIdCounter, tokens, userToken, claims,
                       commitmentToToken, _owners, _balances>>)
sbtSetRegistry(sender, _registry) ==
    /\ SbtSees("MPassSBT.setRegistry", <<_registry>>, onlyOwner(sender), 0)
    /\ SbtCommit(onlyOwner(sender),
        /\ mPassRegistry' = _registry
        /\ UNCHANGED <<sbtOwner, mPassVerifier, _tokenIdCounter, tokens, userToken, claims,
                       commitmentToToken, _owners, _balances>>)
sbtTransferOwnershipRes(sender, newOwner) ==
    IF onlyOwner(sender) # "ok" THEN onlyOwner(sender)
    ELSE IF newOwner = ZeroAddr THEN "Invalid address"
    ELSE "ok"
sbtTransferOwnership(sender, newOwner) ==
    /\ SbtSees("MPassSBT.transferOwnership", <<newOwner>>,
               sbtTransferOwnershipRes(sender, newOwner), 0)
    /\ SbtCommit(sbtTransferOwnershipRes(sender, newOwner),
        /\ sbtOwner' = newOwner
        /\ UNCHANGED <<mPassVerifier, mPassRegistry, _tokenIdCounter, tokens, userToken,
                       claims, commitmentToToken, _owners, _balances>>)

\* _addClaim, as the values it leaves in claims, in a token's credentialTypes
\* and in commitmentToToken
Has(seq, x) == \E i \in 1..Len(seq) : seq[i] = x
_addClaimClaims(sender, tokenId, credType, commitment, nullifier, expiresAt) ==
    [claims EXCEPT ![<<tokenId, credType>>] =
        [topic |-> credType, scheme |-> 1, issuer |-> sender, commitment |-> commitment,
         nullifier |-> nullifier, issuedAt |-> now, expiresAt |-> expiresAt]]
_addClaimTypes(credentialTypes, credType) ==
    IF Has(credentialTypes, credType) THEN credentialTypes
    ELSE Append(credentialTypes, credType)
\* _hasFullKYC, read in the claims given
RequiredTopics == {AGE_18_PLUS, JURISDICTION, ACCREDITED, AML_COMPLIANT}
_hasFullKYC(cl, tokenId) ==
    \A topic \in RequiredTopics :
        /\ cl[<<tokenId, topic>>].issuedAt # 0
        /\ ~(cl[<<tokenId, topic>>].expiresAt > 0 /\ now > cl[<<tokenId, topic>>].expiresAt)
_addClaimEvents(sender, holder, tokenId, credType, commitment, nullifier, expiresAt) ==
    <<[name |-> "ClaimAdded", args |-> <<tokenId, credType, commitment, sender>>]>>
    \o (IF _hasFullKYC(_addClaimClaims(sender, tokenId, credType, commitment, nullifier,
                                       expiresAt), tokenId)
        THEN <<[name |-> "FullKYCVerified", args |-> <<holder, tokenId>>]>>
        ELSE << >>)

\* ERC721._mint reverts for the zero address and for a token that has an owner.
mintSBTRes(sender, user, credType, commitment, nullifier, expiresAt) ==
    IF onlyVerifier(sender) # "ok" THEN onlyVerifier(sender)
    ELSE IF userToken[user] # 0 THEN "ok"
    ELSE IF user = ZeroAddr THEN "ERC721InvalidReceiver"
    ELSE IF _ownerOf(_tokenIdCounter) # ZeroAddr THEN "ERC721InvalidSender"
    ELSE "ok"
mintSBTTokenId(user) == IF userToken[user] # 0 THEN userToken[user] ELSE _tokenIdCounter
mintSBTEvents(sender, user, credType, commitment, nullifier, expiresAt) ==
    IF userToken[user] # 0
    THEN _addClaimEvents(sender, tokens[userToken[user]].holder, userToken[user], credType,
                         commitment, nullifier, expiresAt)
    ELSE <<[name |-> "Transfer", args |-> <<ZeroAddr, user, _tokenIdCounter>>]>>
         \o _addClaimEvents(sender, user, _tokenIdCounter, credType, commitment, nullifier,
                            expiresAt)
         \o <<[name |-> "Locked", args |-> <<_tokenIdCounter>>]>>
mintSBT(sender, user, credType, commitment, nullifier, expiresAt) ==
    LET tokenId == mintSBTTokenId(user)
        res == mintSBTRes(sender, user, credType, commitment, nullifier, expiresAt)
    IN  /\ SbtSees("MPassSBT.mintSBT", <<user, credType>>, res, tokenId)
        /\ SbtCommit(res,
            /\ claims' = _addClaimClaims(sender, tokenId, credType, commitment, nullifier,
                                         expiresAt)
            /\ commitmentToToken' = [commitmentToToken EXCEPT ![commitment] = tokenId]
            /\ IF userToken[user] # 0
               THEN /\ tokens' = [tokens EXCEPT ![tokenId].credentialTypes =
                                      _addClaimTypes(@, credType)]
                    /\ UNCHANGED <<_tokenIdCounter, userToken, _owners, _balances>>
               ELSE /\ _tokenIdCounter' = _tokenIdCounter + 1
                    /\ _owners' = [_owners EXCEPT ![tokenId] = user]
                    /\ _balances' = [_balances EXCEPT ![user] = @ + 1]
                    /\ tokens' = [tokens EXCEPT ![tokenId] =
                                      [holder |-> user, credentialTypes |-> <<credType>>,
                                       mintedAt |-> now, locked |-> TRUE]]
                    /\ userToken' = [userToken EXCEPT ![user] = tokenId]
            /\ UNCHANGED <<sbtOwner, mPassVerifier, mPassRegistry>>)

addClaimRes(sender, tokenId) ==
    IF onlyVerifier(sender) # "ok" THEN onlyVerifier(sender)
    ELSE IF _ownerOf(tokenId) = ZeroAddr THEN "Token does not exist"
    ELSE "ok"
addClaim(sender, tokenId, credType, commitment, nullifier, expiresAt) ==
    /\ SbtSees("MPassSBT.addClaim", <<tokenId, credType>>, addClaimRes(sender, tokenId), 0)
    /\ SbtCommit(addClaimRes(sender, tokenId),
        /\ claims' = _addClaimClaims(sender, tokenId, credType, commitment, nullifier,
                                     expiresAt)
        /\ tokens' = [tokens EXCEPT ![tokenId].credentialTypes = _addClaimTypes(@, credType)]
        /\ commitmentToToken' = [commitmentToToken EXCEPT ![commitment] = tokenId]
        /\ UNCHANGED <<sbtOwner, mPassVerifier, mPassRegistry, _tokenIdCounter, userToken,
                       _owners, _balances>>)
revokeClaim(sender, tokenId, credType) ==
    /\ SbtSees("MPassSBT.revokeClaim", <<tokenId, credType>>, onlyVerifier(sender), 0)
    /\ SbtCommit(onlyVerifier(sender),
        /\ claims' = [claims EXCEPT ![<<tokenId, credType>>] = NoClaim]
        /\ UNCHANGED <<sbtOwner, mPassVerifier, mPassRegistry, _tokenIdCounter, tokens,
                       userToken, commitmentToToken, _owners, _balances>>)

\* _update as ERC721 has it, without the override's check: the transfer goes
\* through whenever the sender is the owner of the token
_updateResTransferable(to, tokenId, auth) ==
    IF _ownerOf(tokenId) = ZeroAddr THEN "ERC721NonexistentToken"
    ELSE IF auth # _ownerOf(tokenId) THEN "ERC721InsufficientApproval"
    ELSE "ok"
\* _update on a transfer (auth is the sender, not zero): the override reverts
\* when the token has an owner and the receiver is not zero; for a token
\* without an owner ERC721._update finds nobody authorized.  No approval
\* exists, approve and setApprovalForAll revert.
_updateRes(to, tokenId, auth) ==
    IF _ownerOf(tokenId) # ZeroAddr /\ to # ZeroAddr THEN "SBT: Transfer not allowed"
    ELSE IF _ownerOf(tokenId) = ZeroAddr THEN "ERC721NonexistentToken"
    ELSE IF auth # _ownerOf(tokenId) THEN "ERC721InsufficientApproval"
    ELSE "ok"
\* ERC721.transferFrom; safeTransferFrom goes through it
transferFromRes(sender, from, to, tokenId) ==
    IF to = ZeroAddr THEN "ERC721InvalidReceiver"
    ELSE IF _updateRes(to, tokenId, sender) # "ok" THEN _updateRes(to, tokenId, sender)
    ELSE IF _ownerOf(tokenId) # from THEN "ERC721IncorrectOwner"
    ELSE "ok"
transferFrom(sender, from, to, tokenId) ==
    /\ SbtSees("ERC721.transferFrom", <<from, to, tokenId>>,
               transferFromRes(sender, from, to, tokenId), 0)
    /\ SbtCommit(transferFromRes(sender, from, to, tokenId),
        /\ _owners' = [_owners EXCEPT ![tokenId] = to]
        /\ _balances' = [[_balances EXCEPT ![from] = @ - 1] EXCEPT ![to] = @ + 1]
        /\ UNCHANGED <<sbtOwner, mPassVerifier, mPassRegistry, _tokenIdCounter, tokens,
                       userToken, claims, commitmentToToken>>)
approveRes == "SBT: Approval not allowed"
approve(sender, to, tokenId) ==
    /\ SbtSees("MPassSBT.approve", <<to, tokenId>>, approveRes, 0)
    /\ SbtCommit(approveRes, UNCHANGED sbtVars)
setApprovalForAllRes == "SBT: Approval not allowed"
setApprovalForAll(sender, operator, approved) ==
    /\ SbtSees("MPassSBT.setApprovalForAll", <<operator, approved>>, setApprovalForAllRes, 0)
    /\ SbtCommit(setApprovalForAllRes, UNCHANGED sbtVars)

\* ============================================================== circuits ==
\* A run of a circuit template: the prover fixes the input signals, the
\* template fixes every other signal.  A signal is a field element, written
\* Num(n) when it is given by a number and Poseidon(inputs) when it is a
\* hash.  The hash is collision-free: two hashes are equal only when their
\* inputs are.  Selector signals (index bits, the outputs of IsZero and
\* IsEqual) are the numbers 0 and 1.
Num(n) == <<0, n>>
Poseidon(inputs) == <<Len(inputs), inputs>>

\* circomlib
IsZero(in) == IF in = Num(0) THEN 1 ELSE 0
IsEqual(in) == IF in[1] = in[2] THEN 1 ELSE 0
\* out = c[s], with c[0] the first entry
Mux1(c, s) == c[s + 1]
\* faulty variant: the selector is ignored
MultiMux1IgnoresSelector(c, s) == [i \in 1..Len(c) |-> c[i][1]]
\* out[i] = c[i][s]
MultiMux1(c, s) == [i \in 1..Len(c) |-> c[i][s + 1]]

\* ---- circuits/lib/nullifier.circom ----
GlobalNullifier(secret, credentialCommitment) == Poseidon(<<secret, credentialCommitment>>)
EventBoundNullifier(secret, eventId) ==
    LET innerHash == Poseidon(<<secret>>)
    IN  Poseidon(<<secret, innerHash, eventId>>)
BlindedCommitment(commitment, blindingFactor) == Poseidon(<<commitment, blindingFactor>>)

\* ---- circuits/lib/merkle.circom ----
\* levelHashes[i] of MerkleTreeInclusionProof; pathElements and pathIndices
\* are indexed from 1, so the loop's step i reads entry i + 1.
RECURSIVE levelHashes(_, _, _, _)
levelHashes(leaf, pathElements, pathIndices, i) ==
    IF i = 0 THEN leaf
    ELSE LET prev == levelHashes(leaf, pathElements, pathIndices, i - 1)
             mux == MultiMux1(<< <<prev, pathElements[i]>>,
                                 <<pathElements[i], prev>> >>, pathIndices[i])
         IN  Poseidon(<<mux[1], mux[2]>>)
MerkleTreeInclusionProof(levels, leaf, pathElements, pathIndices) ==
    levelHashes(leaf, pathElements, pathIndices, levels)
MerkleTreeVerifier(levels, leaf, pathElements, pathIndices, root) ==
    IsEqual(<<MerkleTreeInclusionProof(levels, leaf, pathElements, pathIndices), root>>)

\* SparseMerkleTreeNonInclusion.  Its selector isOld0 is an input signal
\* that no constraint restricts to 0 and 1, so the arithmetic of the
\* template is followed on it as on any field element.  Beside numbers
\* and hashes a signal can then be
\*   OneMinusQuot(x, y)   the element 1 - x / y, for hashes x and y;
\*   Scaled(f, t)         the product f * t of a factor and a hash t,
\* and Scaled(f, t) equals a hash only when the factor cancels: the hash
\* values are unrelated field elements.
OneMinusQuot(x, y) == IF x = y THEN Num(0) ELSE <<-1, <<x, y>>>>
Scaled(f, t) == <<-2, <<f, t>>>>
\* Num2Bits(n): out[i] is bit i of in, the lowest first; the template has
\* no witness for in >= 2^n
Num2BitsOk(n, in) == in[1] = 0 /\ in[2] \in 0..(2^n - 1)
Num2Bits(n, in) == [i \in 1..n |-> (in[2] \div (2^(i - 1))) % 2]
\* leafMux: out = (c[1] - c[0]) * s + c[0] with c[0] = oldLeafHasher.out,
\* c[1] = 0 and s = isOld0, that is (1 - isOld0) * oldLeafHasher.out
leafMux(oldLeaf, isOld0) ==
    CASE isOld0 = Num(0) -> oldLeaf
      [] isOld0 = Num(1) -> Num(0)
      [] isOld0[1] = 0 /\ isOld0[2] \notin {0, 1} -> Scaled(Num(1 - isOld0[2]), oldLeaf)
      [] isOld0[1] = -1 ->
             IF isOld0[2][2] = oldLeaf THEN isOld0[2][1]
             ELSE Scaled(isOld0, oldLeaf)
\* validNonMembership = isOld0 + (1 - isOld0) * keyDifferent
validNonMembership(isOld0, keyDifferent) ==
    IF keyDifferent = 1 THEN Num(1) ELSE isOld0
\* the output signal valid
SparseMerkleTreeNonInclusion(levels, key, root, siblings, isOld0, oldKey, oldValue) ==
    LET keyBits == Num2Bits(levels, key)
        oldLeafHasher == Poseidon(<<oldKey, oldValue>>)
        merkleProof == MerkleTreeInclusionProof(levels, leafMux(oldLeafHasher, isOld0),
                                                siblings, keyBits)
        rootCheck == IsEqual(<<merkleProof, root>>)
        keyNotEqual == IsEqual(<<key, oldKey>>)
        keyDifferent == 1 - keyNotEqual
    IN  IF rootCheck = 1 THEN validNonMembership(isOld0, keyDifferent) ELSE Num(0)

\* ---- circuits/age/age_proof_v2.circom: AgeProofV2 ----
\* Steps 1, 2 and 7 of the template, which fix the outputs nullifier and
\* blindedCommitment.  Steps 3 to 6 constrain the inputs (registry inclusion,
\* non-revocation, age) and feed neither output.
AgeProofV2Commitment(secret, birthYear, birthMonth, birthDay) ==
    Poseidon(<<birthYear, birthMonth, birthDay, secret>>)
AgeProofV2Nullifier(secret, credentialCommitment, eventId) ==
    LET eventNullifier == EventBoundNullifier(secret, eventId)
        globalNullifier == GlobalNullifier(secret, credentialCommitment)
        isGlobal == IsZero(eventId)
    IN  Mux1(<<eventNullifier, globalNullifier>>, isGlobal)

\* ---- the PassportDisclose template ----
\* Steps 1 and 7: the outputs passportCommitment and nullifier.
PassportDiscloseCommitment(secret, fields) == Poseidon(<<secret>> \o fields)
PassportDiscloseNullifier(secret, eventId) == EventBoundNullifier(secret, eventId)

\* ---- the production circuits: circuits/prod ----
\* Step 1 of each template, the same in all four, and step 2, the nullifier.
\* eventId is a public input on which no template puts a constraint.
ProdCommitment(secret, birthYear, birthMonth, birthDay) ==
    Poseidon(<<birthYear, birthMonth, birthDay, secret>>)
AgeVerifyNullifier(secret, eventId) == Poseidon(<<secret, eventId>>)
JurisdictionVerifyNullifier(secret, eventId) ==
    Poseidon(<<secret, Num(eventId[2] + JurisdictionOffset)>>)
AccreditedVerifyNullifier(secret, eventId) ==
    Poseidon(<<secret, Num(eventId[2] + AccreditedOffset)>>)
AMLVerifyNullifier(secret, eventId) ==
    Poseidon(<<secret, Num(eventId[2] + AMLOffset)>>)
ProdTemplates == {"AgeVerify", "JurisdictionVerify", "AccreditedVerify", "AMLVerify"}
ProdNullifier(template, secret, eventId) ==
    CASE template = "AgeVerify" -> AgeVerifyNullifier(secret, eventId)
      [] template = "JurisdictionVerify" -> JurisdictionVerifyNullifier(secret, eventId)
      [] template = "AccreditedVerify" -> AccreditedVerifyNullifier(secret, eventId)
      [] template = "AMLVerify" -> AMLVerifyNullifier(secret, eventId)
\* the event ids offered: the small ones, and the same moved by each offset
ProdEventIds ==
    {Num(e + off) : e \in EventIds,
                    off \in {0, JurisdictionOffset, AccreditedOffset, AMLOffset}}

\* ---- the inputs offered to the templates ----
Secrets == {Num(k) : k \in 1..MaxSecret}
BirthYears == {Num(1990), Num(2010)}
CircuitEventIds == {Num(e) : e \in EventIds}

\* The registry tree: 2^Levels distinct leaves, hashed pairwise level by
\* level.  Subtree(leaves, h, p) is the node at height h, position p.
LeafPositions == 0..(2^Levels - 1)
FixtureLeaves == [k \in LeafPositions |-> Num(k + 1)]
RECURSIVE Subtree(_, _, _)
Subtree(leaves, h, p) ==
    IF h = 0 THEN leaves[p]
    ELSE Poseidon(<<Subtree(leaves, h - 1, 2 * p), Subtree(leaves, h - 1, 2 * p + 1)>>)
\* the sibling path and the index bits of the leaf at position k
SiblingPath(leaves, k) ==
    [i \in 1..Levels |->
        LET q == k \div (2^(i - 1))
        IN  Subtree(leaves, i - 1, IF q % 2 = 0 THEN q + 1 ELSE q - 1)]
IndexBits(k) == [i \in 1..Levels |-> (k \div (2^(i - 1))) % 2]
FixtureRoot == Subtree(FixtureLeaves, Levels, 0)
\* roots of other trees: the two halves exchanged, the leaves rotated by one
\* position, one leaf replaced
OtherRoots ==
    {Poseidon(<<Subtree(FixtureLeaves, Levels - 1, 1), Subtree(FixtureLeaves, Levels - 1, 0)>>),
     Subtree([k \in LeafPositions |-> FixtureLeaves[(k + 1) % (2^Levels)]], Levels, 0),
     Subtree([FixtureLeaves EXCEPT ![0] = Num(0)], Levels, 0)}
\* a path with the siblings at levels i and j exchanged
SwapSiblings(path, i, j) == [path EXCEPT ![i] = path[j], ![j] = path[i]]

\* The sparse revocation tree: slot k is the leaf reached by the bits of key
\* k.  A tree is given by the key held in each slot, NoKey for an empty
\* slot; an occupied slot holds Poseidon(key, 1), an empty one 0.
SmtSlots == 0..(2^SmtLevels - 1)
NoKey == -1
SmtLeaves(occupant) ==
    [k \in SmtSlots |-> IF occupant[k] = NoKey THEN Num(0)
                        ELSE Poseidon(<<Num(occupant[k]), Num(1)>>)]
SmtNext(k) == (k + 1) % (2^SmtLevels)
\* the empty tree; one key revoked; the first two keys revoked; and a tree
\* whose slot k holds the next key instead of k
SmtTrees ==
    {[k \in SmtSlots |-> NoKey]}
    \cup {[k \in SmtSlots |-> IF k = r THEN k ELSE NoKey] : r \in SmtSlots}
    \cup {[k \in SmtSlots |-> IF k \in {0, 1} THEN k ELSE NoKey]}
    \cup {[k \in SmtSlots |-> IF k = r THEN SmtNext(r) ELSE NoKey] : r \in SmtSlots}
SmtRoot(occupant) == Subtree(SmtLeaves(occupant), SmtLevels, 0)
SmtSiblings(occupant, k) ==
    [i \in 1..SmtLevels |->
        LET q == k \div (2^(i - 1))
        IN  Subtree(SmtLeaves(occupant), i - 1, IF q % 2 = 0 THEN q + 1 ELSE q - 1)]
\* the keys asked about: every slot's key and one key too wide for Num2Bits
SmtKeys == {Num(k) : k \in 0..(2^SmtLevels)}
OldKeys == {Num(k) : k \in SmtSlots}
OldValues == {Num(1), Num(2)}
\* the values a prover gives to isOld0 for a query key and an occupant:
\* 0, 1, another number, and 1 - Poseidon(key, 1) / Poseidon(oldKey, oldValue)
Flags(key, oldKey, oldValue) ==
    {Num(0), Num(1), Num(2),
     OneMinusQuot(Poseidon(<<key, Num(1)>>), Poseidon(<<oldKey, oldValue>>))}

\* No circuit has run yet.
NoRun == [template |-> "none"]

\* ---- a run: the signals of one witness ----
AgeProofV2(secret, birthYear, birthMonth, birthDay, blindingFactor, eventId) ==
    LET credentialCommitment == AgeProofV2Commitment(secret, birthYear, birthMonth, birthDay)
    IN  circuitRun' =
            [template |-> "AgeProofV2", secret |-> secret,
             credentialCommitment |-> credentialCommitment, eventId |-> eventId,
             nullifier |-> AgeProofV2Nullifier(secret, credentialCommitment, eventId),
             blindedCommitment |-> BlindedCommitment(credentialCommitment, blindingFactor)]
PassportDisclose(secret, fields, eventId) ==
    circuitRun' =
        [template |-> "PassportDisclose", secret |-> secret,
         passportCommitment |-> PassportDiscloseCommitment(secret, fields),
         eventId |-> eventId,
         nullifier |-> PassportDiscloseNullifier(secret, eventId)]
RunMerkleTreeVerifier(position, pathElements, pathIndices, root) ==
    circuitRun' =
        [template |-> "MerkleTreeVerifier", position |-> position,
         leaf |-> FixtureLeaves[position],
         pathElements |-> pathElements, pathIndices |-> pathIndices, root |-> root,
         valid |-> MerkleTreeVerifier(Levels, FixtureLeaves[position], pathElements,
                                      pathIndices, root)]

\* a run against the root `root`, asked about `key` with the tree `occupant`
\* in mind; Num2Bits admits no witness for a key of more than `levels` bits
RunSparseMerkleTreeNonInclusion(occupant, key, root, siblings, isOld0, oldKey, oldValue) ==
    /\ Num2BitsOk(SmtLevels, key)
    /\ circuitRun' =
           [template |-> "SparseMerkleTreeNonInclusion", occupant |-> occupant,
            key |-> key, root |-> root, siblings |-> siblings, isOld0 |-> isOld0,
            oldKey |-> oldKey, oldValue |-> oldValue,
            valid |-> SparseMerkleTreeNonInclusion(SmtLevels, key, root, siblings,
                                                   isOld0, oldKey, oldValue)]

\* a run of one of the production templates
RunProd(template, secret, birthYear, eventId) ==
    circuitRun' =
        [template |-> template, secret |-> secret, eventId |-> eventId,
         credentialCommitment |-> ProdCommitment(secret, birthYear, Num(1), Num(1)),
         nullifier |-> ProdNullifier(template, secret, eventId)]

\* ================================================================= Init ==
\* The constructors of MPassRegistryV2, MPassVerifierV2 and MPassRegistry,
\* run by OwnerAddr; MPassAgeVerifier has no owner.
\* ---- the browser's credential store and proof history ------------------
\* localStorage.getItem gives null for a missing key: an item is << >> when
\* missing and <<v>> when present, v being what JSON.parse gives back for it.
NoItem == << >>
Item(v) == <<v>>
\* A ProofHistoryEntry; txHash is NoItem when undefined.
ProofHistoryEntry(id, type, timestamp, nullifier, commitment, verified, txHash) ==
    [id |-> id, type |-> type, timestamp |-> timestamp, nullifier |-> nullifier,
     commitment |-> commitment, verified |-> verified, txHash |-> txHash]
getProofHistory ==
    IF localStorage.mpass_proof_history = NoItem
    THEN << >>
    ELSE localStorage.mpass_proof_history[1]
\* history.pop(): the array without its last element
pop(history) == SubSeq(history, 1, Len(history) - 1)
\* id is the value crypto.randomUUID() gives.
saveProofToHistory(proof, type, verified, txHash, id) ==
    LET entry == ProofHistoryEntry(id, type, clock, proof.nullifier, proof.commitment,
                                   verified, txHash)
        unshifted == <<entry>> \o getProofHistory
        history == IF Len(unshifted) > HistoryCap THEN pop(unshifted) ELSE unshifted
    IN  /\ localStorage' = [localStorage EXCEPT !.mpass_proof_history = Item(history)]
        /\ UNCHANGED clock
clearProofHistory ==
    /\ localStorage' = [localStorage EXCEPT !.mpass_proof_history = NoItem]
    /\ UNCHANGED clock
loadCredential ==
    IF localStorage.mpass_credential = NoItem THEN NoItem ELSE localStorage.mpass_credential
\* the item storeCredential writes: the credential and storedAt
storeCredential(credential) ==
    Item([commitment |-> credential.commitment, storedAt |-> clock])
\* A backup as JSON.parse reads it: parses is FALSE for a string that is not
\* JSON; credential and history are NoItem when the key is missing; a
\* commitment of 0 is a missing (falsy) one.
Backup(parses, credential, history) ==
    [parses |-> parses, credential |-> credential, history |-> history]
exportCredential ==
    IF loadCredential = NoItem
    THEN NoItem
    ELSE Item(Backup(TRUE, Item([commitment |-> loadCredential[1].commitment]),
                     Item(getProofHistory)))
importCredentialRes(data) ==
    IF ~data.parses THEN "null"
    ELSE IF data.credential = NoItem THEN "null"
    ELSE IF data.credential[1].commitment = 0 THEN "null"
    ELSE "credential"
importCredential(data) ==
    /\ IF importCredentialRes(data) = "null"
       THEN UNCHANGED localStorage
       ELSE localStorage' =
                [mpass_credential |-> storeCredential(data.credential[1]),
                 mpass_proof_history |->
                     IF data.history # NoItem
                     THEN Item(data.history[1])
                     ELSE localStorage.mpass_proof_history]
    /\ UNCHANGED clock
\* Date.now() moves on
ClockTick ==
    /\ clock < MaxClock
    /\ clock' = clock + 1
    /\ UNCHANGED localStorage

\* the proof the page saves, and the backups given to importCredential: not
\* JSON, no credential, no commitment, a credential alone, a credential with
\* an empty history, with two entries written oldest first, and with one
\* entry more than the cap
SavedProof == [nullifier |-> TestNullifier, commitment |-> 1]
SavedEntry(t) == ProofHistoryEntry(0, "age", t, TestNullifier, 1, TRUE, NoItem)
BackupCredential == Item([commitment |-> 1])
Backups ==
    {Backup(FALSE, NoItem, NoItem),
     Backup(TRUE, NoItem, NoItem),
     Backup(TRUE, Item([commitment |-> 0]), Item(<<SavedEntry(0)>>)),
     Backup(TRUE, BackupCredential, NoItem),
     Backup(TRUE, BackupCredential, Item(<< >>)),
     Backup(TRUE, BackupCredential, Item(<<SavedEntry(0), SavedEntry(1)>>)),
     Backup(TRUE, BackupCredential, Item([i \in 1..(HistoryCap + 1) |-> SavedEntry(0)]))}


Init ==
    /\ owner = OwnerAddr
    /\ authorizedIssuers = {OwnerAddr}
    /\ authorizedUpdaters = {OwnerAddr}
    /\ roots = [registryRoot |-> 0, revocationRoot |-> 0, updatedAt |-> 0]
    /\ nullifierUsed = {}
    /\ eventNullifierUsed = {}
    /\ credentialExists = {}
    /\ credentialRevoked = {}
    /\ verifierOwner = OwnerAddr
    /\ ageVerifier = ZeroAddr
    /\ passportVerifier = ZeroAddr
    /\ registry = RegistryAddr
    /\ detached = [a \in RegistryAddrs |->
                      <<OwnerAddr, {OwnerAddr}, {OwnerAddr},
                        [registryRoot |-> 0, revocationRoot |-> 0, updatedAt |-> 0],
                        {}, {}, {}, {}>>]
    /\ now = 1
    /\ phase = "open"
    /\ pending = << >>
    /\ outcome = << >>
    /\ v1Owner = OwnerAddr
    /\ v1AuthorizedIssuers = {}
    /\ credentials = [k \in Callers \X IssuedHashes |-> NoCredential]
    /\ userCredentialsByType = [k \in Callers \X ValidCredentialTypes |-> << >>]
    /\ v1RevocationRoot = 0
    /\ avNullifierUsed = {}
    /\ registeredCredentials = {}
    /\ eventLog = << >>
    /\ circuitRun = NoRun
    /\ lastCall = NoCall
    /\ localStorage = [mpass_credential |-> NoItem, mpass_proof_history |-> NoItem]
    /\ clock = 0
    /\ sbtOwner = OwnerAddr
    /\ mPassVerifier = GatewayAddr
    /\ mPassRegistry = RegistryAddr
    /\ _tokenIdCounter = 1
    /\ tokens = [t \in TokenIds |-> NoToken]
    /\ userToken = [u \in Addresses |-> 0]
    /\ claims = [k \in TokenIds \X Topics |-> NoClaim]
    /\ commitmentToToken = [c \in Commitments |-> 0]
    /\ _owners = [t \in TokenIds |-> ZeroAddr]
    /\ _balances = [u \in Addresses |-> 0]

\* ---- two verifications in flight --------------------------------------
\* A call of a consuming entry point, as submitted.
AgeCall(sender, minAge, eventId, proof) ==
    [fn |-> "verifyAgeWithNullifier", sender |-> sender, minAge |-> minAge,
     eventId |-> eventId, proof |-> proof]
PassportCall(sender, eventId, proof) ==
    [fn |-> "verifyPassportDisclosure", sender |-> sender, minAge |-> 0,
     eventId |-> eventId, proof |-> proof]
GatewayCalls ==
    {AgeCall(s, m, e, p) : s \in {UserAddr}, m \in Ages, e \in EventIds, p \in AgeProofs}
    \cup {PassportCall(s, e, p) : s \in {UserAddr}, e \in EventIds, p \in PassportProofs}

callRes(call) ==
    IF call.fn = "verifyAgeWithNullifier"
    THEN verifyAgeWithNullifierRes(call.sender, call.minAge, call.eventId, call.proof)
    ELSE verifyPassportDisclosureRes(call.sender, call.eventId, call.proof)
callStep(call) ==
    IF call.fn = "verifyAgeWithNullifier"
    THEN verifyAgeWithNullifier(call.sender, call.minAge, call.eventId, call.proof)
    ELSE verifyPassportDisclosure(call.sender, call.eventId, call.proof)
callNullifier(call) ==
    IF call.fn = "verifyAgeWithNullifier"
    THEN ageNullifier(_decodeProof(call.proof))
    ELSE passportNullifier(_decodeProof(call.proof))

\* Two clients submit verifications that carry the same nullifier in the same
\* scope, each of which the gateway would accept as the state stands: roots
\* fresh, oracle accepting, nullifier not yet consumed.
SubmitRace(c1, c2) ==
    /\ phase = "open"
    /\ callRes(c1) = "ok" /\ callRes(c2) = "ok"
    /\ c1.eventId = c2.eventId
    /\ callNullifier(c1) = callNullifier(c2)
    /\ phase' = "racing"
    /\ pending' = <<c1, c2>>
    /\ outcome' = <<"pending", "pending">>
    /\ UNCHANGED <<sysVars, v1Vars, restVars>>

\* The chain executes one of the submitted calls, whole.
ExecRacer(i) ==
    /\ phase = "racing"
    /\ outcome[i] = "pending"
    /\ callStep(pending[i])
    /\ outcome' = [outcome EXCEPT ![i] = callRes(pending[i])]
    /\ UNCHANGED <<phase, pending, v1Vars, restVars>>

\* ---- one verification in flight ------------------------------------------
\* A client submits a verification; it is in flight until the chain executes
\* it.  Nothing is asked of the state at submission: the statement embeds
\* whatever roots its prover used.
SubmitOne(c) ==
    /\ phase = "open" \/ (Len(outcome) = 1 /\ outcome[1] # "pending")
    /\ phase' = "racing"
    /\ pending' = <<c>>
    /\ outcome' = <<"pending">>
    /\ UNCHANGED <<sysVars, v1Vars, restVars>>
\* the verifications submitted: complete age statements with an accepted proof
InFlightCalls ==
    {AgeCall(UserAddr, 0, e, ProofOf(st, TRUE)) : e \in EventIds, st \in AgeStatements}

\* ================================================================ Next ==
RegistryNext ==
    \/ \E s \in Callers, a \in Callers : addIssuer(s, a) /\ UNCHANGED <<raceVars, v1Vars, restVars>>
    \/ \E s \in Callers, a \in Callers : removeIssuer(s, a) /\ UNCHANGED <<raceVars, v1Vars, restVars>>
    \/ \E s \in Callers, a \in Callers : addUpdater(s, a) /\ UNCHANGED <<raceVars, v1Vars, restVars>>
    \/ \E s \in Callers, a \in Callers : removeUpdater(s, a) /\ UNCHANGED <<raceVars, v1Vars, restVars>>
    \/ \E s \in Callers, a \in Addresses : transferOwnership(s, a) /\ UNCHANGED <<raceVars, v1Vars, restVars>>
    \/ \E s \in Callers, r \in Roots, v \in Roots :
           updateRoots(s, r, v) /\ UNCHANGED <<raceVars, v1Vars, restVars>>
    \/ \E s \in Callers, c \in Commitments : registerCredential(s, c) /\ UNCHANGED <<raceVars, v1Vars, restVars>>
    \/ \E s \in Callers, c \in Commitments : revokeCredential(s, c) /\ UNCHANGED <<raceVars, v1Vars, restVars>>
    \/ \E s \in Callers, cs \in Batches :
           batchRegisterCredentials(s, cs) /\ UNCHANGED <<raceVars, v1Vars, restVars>>
    \/ \E s \in Callers, cs \in Batches :
           batchRevokeCredentials(s, cs) /\ UNCHANGED <<raceVars, v1Vars, restVars>>
    \/ \E s \in Callers \cup {GatewayAddr}, n \in Nullifiers :
           useNullifier(s, n) /\ UNCHANGED <<raceVars, v1Vars, restVars>>
    \/ \E s \in Callers \cup {GatewayAddr}, e \in EventIds, n \in Nullifiers :
           useEventNullifier(s, e, n) /\ UNCHANGED <<raceVars, v1Vars, restVars>>

Next == RegistryNext

\* The registry contract under every caller, the gateway's address included.
Spec == Init /\ [][Next]_vars

\* The gateway and the registry state it reads and writes (roots and both
\* ledgers), under the authorization policy the constructors set up.
GatewayNext ==
    \/ \E s \in Callers, r \in Roots, v \in Roots :
           updateRoots(s, r, v) /\ UNCHANGED <<raceVars, v1Vars, restVars>>
    \/ \E s \in Callers, n \in Nullifiers : useNullifier(s, n) /\ UNCHANGED <<raceVars, v1Vars, restVars>>
    \/ \E s \in Callers, e \in EventIds, n \in Nullifiers :
           useEventNullifier(s, e, n) /\ UNCHANGED <<raceVars, v1Vars, restVars>>
    \/ \E s \in Callers, av \in VerifierAddrs, pv \in VerifierAddrs :
           setVerifiers(s, av, pv) /\ UNCHANGED <<raceVars, v1Vars, restVars>>
    \/ \E s \in Callers, a \in Addresses :
           verifierTransferOwnership(s, a) /\ UNCHANGED <<raceVars, v1Vars, restVars>>
    \/ \E s \in Callers, m \in Ages, e \in EventIds, p \in AgeProofs :
           verifyAgeWithNullifier(s, m, e, p) /\ UNCHANGED <<raceVars, v1Vars, restVars>>
    \/ \E s \in Callers, e \in EventIds, p \in PassportProofs :
           verifyPassportDisclosure(s, e, p) /\ UNCHANGED <<raceVars, v1Vars, restVars>>
    \/ \E v \in VerifierAddrs, p \in AgeProofs : verifyProofOnly(v, p) /\ UNCHANGED <<raceVars, v1Vars, restVars>>

GatewaySpec == Init /\ [][GatewayNext]_vars

\* The whole engine: the gateway, and the registry's credential operations
\* beside it (every operation except the owners' role administration).
EngineNext ==
    \/ \E s \in Callers, c \in Commitments : registerCredential(s, c) /\ UNCHANGED <<raceVars, v1Vars, restVars>>
    \/ \E s \in Callers, c \in Commitments : revokeCredential(s, c) /\ UNCHANGED <<raceVars, v1Vars, restVars>>
    \/ \E s \in Callers, cs \in Batches :
           batchRegisterCredentials(s, cs) /\ UNCHANGED <<raceVars, v1Vars, restVars>>
    \/ \E s \in Callers, cs \in Batches :
           batchRevokeCredentials(s, cs) /\ UNCHANGED <<raceVars, v1Vars, restVars>>
    \/ GatewayNext

EngineSpec == Init /\ [][EngineNext]_vars

\* Two submitted verifications racing for one nullifier.  Before the
\* submission the gateway is configured and roots are published; from the
\* submission on, only the two calls run.  A submitted
\* call is executed: no operation of the engine blocks or suspends.
RaceNext ==
    \/ \E s \in Callers, av \in VerifierAddrs, pv \in VerifierAddrs :
           phase = "open" /\ setVerifiers(s, av, pv) /\ UNCHANGED <<raceVars, v1Vars, restVars>>
    \/ \E s \in Callers, r \in Roots, v \in Roots :
           phase = "open" /\ updateRoots(s, r, v) /\ UNCHANGED <<raceVars, v1Vars, restVars>>
    \/ \E c1 \in GatewayCalls :
           /\ phase = "open" /\ callRes(c1) = "ok"
           /\ \E c2 \in GatewayCalls : SubmitRace(c1, c2)
    \/ ExecRacer(1)
    \/ ExecRacer(2)

RaceSpec ==
    Init /\ [][RaceNext]_vars /\ WF_vars(ExecRacer(1)) /\ WF_vars(ExecRacer(2))

\* The credential state of both registries and the issuer role that guards
\* it (role grants by the owners, every credential-mutating operation).
CredentialNext ==
    \/ \E s \in Callers, a \in Callers : addIssuer(s, a) /\ UNCHANGED <<raceVars, v1Vars, restVars>>
    \/ \E s \in Callers, a \in Callers :
           removeIssuer(s, a) /\ UNCHANGED <<raceVars, v1Vars, restVars>>
    \/ \E s \in Callers, a \in Callers : addUpdater(s, a) /\ UNCHANGED <<raceVars, v1Vars, restVars>>
    \/ \E s \in Callers, c \in Commitments :
           registerCredential(s, c) /\ UNCHANGED <<raceVars, v1Vars, restVars>>
    \/ \E s \in Callers, c \in Commitments :
           revokeCredential(s, c) /\ UNCHANGED <<raceVars, v1Vars, restVars>>
    \/ \E s \in Callers, cs \in Batches :
           batchRegisterCredentials(s, cs) /\ UNCHANGED <<raceVars, v1Vars, restVars>>
    \/ \E s \in Callers, cs \in Batches :
           batchRevokeCredentials(s, cs) /\ UNCHANGED <<raceVars, v1Vars, restVars>>
    \/ \E s \in Callers, a \in Callers : v1AddIssuer(s, a) /\ UNCHANGED <<sysVars, raceVars, restVars>>
    \/ \E s \in Callers, a \in Callers :
           v1RemoveIssuer(s, a) /\ UNCHANGED <<sysVars, raceVars, restVars>>
    \/ \E s \in Callers, u \in Users, h \in CredentialHashes,
          t \in CredentialTypes, x \in Expiries :
           issueCredential(s, u, h, t, x) /\ UNCHANGED <<sysVars, raceVars, restVars>>
    \/ \E s \in Callers, u \in Users, h \in CredentialHashes :
           v1RevokeCredential(s, u, h) /\ UNCHANGED <<sysVars, raceVars, restVars>>

CredentialSpec == Init /\ [][CredentialNext]_vars

\* The Roots Record over time: root updates by whoever holds a role, role
\* changes, the credential maps beside it, and the passing of time.
RootsNext ==
    \/ Tick
    \/ \E s \in Callers, r \in Roots, v \in Roots :
           updateRoots(s, r, v) /\ UNCHANGED <<raceVars, v1Vars, restVars>>
    \/ \E s \in Callers, a \in Callers : addIssuer(s, a) /\ UNCHANGED <<raceVars, v1Vars, restVars>>
    \/ \E s \in Callers, a \in Callers :
           removeIssuer(s, a) /\ UNCHANGED <<raceVars, v1Vars, restVars>>
    \/ \E s \in Callers, a \in Callers : addUpdater(s, a) /\ UNCHANGED <<raceVars, v1Vars, restVars>>
    \/ \E s \in Callers, a \in Callers :
           removeUpdater(s, a) /\ UNCHANGED <<raceVars, v1Vars, restVars>>
    \/ \E s \in Callers, c \in Commitments :
           registerCredential(s, c) /\ UNCHANGED <<raceVars, v1Vars, restVars>>
    \/ \E s \in Callers, c \in Commitments :
           revokeCredential(s, c) /\ UNCHANGED <<raceVars, v1Vars, restVars>>

RootsSpec == Init /\ [][RootsNext]_vars

\* Role administration of both registries.
AdminNext ==
    \/ \E s \in Callers, a \in Callers : addIssuer(s, a) /\ UNCHANGED <<raceVars, v1Vars, restVars>>
    \/ \E s \in Callers, a \in Callers :
           removeIssuer(s, a) /\ UNCHANGED <<raceVars, v1Vars, restVars>>
    \/ \E s \in Callers, a \in Callers : addUpdater(s, a) /\ UNCHANGED <<raceVars, v1Vars, restVars>>
    \/ \E s \in Callers, a \in Callers :
           removeUpdater(s, a) /\ UNCHANGED <<raceVars, v1Vars, restVars>>
    \/ \E s \in Callers, a \in Addresses :
           transferOwnership(s, a) /\ UNCHANGED <<raceVars, v1Vars, restVars>>
    \/ \E s \in Callers, a \in Callers : v1AddIssuer(s, a) /\ UNCHANGED <<sysVars, raceVars, restVars>>
    \/ \E s \in Callers, a \in Callers :
           v1RemoveIssuer(s, a) /\ UNCHANGED <<sysVars, raceVars, restVars>>
    \/ \E s \in Callers, a \in Addresses :
           v1TransferOwnership(s, a) /\ UNCHANGED <<sysVars, raceVars, restVars>>

AdminSpec == Init /\ [][AdminNext]_vars

\* The gateway offered statements of every length, the truncated ones
\* included.
ShapeCalls ==
    {AgeCall(s, m, e, p) : s \in {UserAddr}, m \in Ages, e \in EventIds,
                           p \in AgeProofs \cup TruncatedAgeProofs}
    \cup {PassportCall(s, e, p) : s \in {UserAddr}, e \in EventIds,
                                  p \in PassportProofs \cup TruncatedPassportProofs}
ShapeNext ==
    \/ \E s \in Callers, av \in VerifierAddrs, pv \in VerifierAddrs :
           setVerifiers(s, av, pv) /\ UNCHANGED <<raceVars, v1Vars, restVars>>
    \/ \E s \in Callers, r \in Roots, v \in Roots :
           updateRoots(s, r, v) /\ UNCHANGED <<raceVars, v1Vars, restVars>>
    \/ \E call \in ShapeCalls :
           /\ call.fn = "verifyAgeWithNullifier"
           /\ callStep(call) /\ UNCHANGED <<raceVars, v1Vars, restVars>>
    \/ \E call \in ShapeCalls :
           /\ call.fn = "verifyPassportDisclosure"
           /\ callStep(call) /\ UNCHANGED <<raceVars, v1Vars, restVars>>

ShapeSpec == Init /\ [][ShapeNext]_vars

\* The circuit templates, run on one witness after another.  The Merkle
\* verifier is offered, for every leaf of the fixture tree, its sibling path
\* against the tree's root and against other roots, and the path with two
\* siblings exchanged.
CircuitNext ==
    \/ \E secret \in Secrets, birthYear \in BirthYears, eventId \in CircuitEventIds :
           /\ AgeProofV2(secret, birthYear, Num(1), Num(1), Num(1), eventId)
           /\ UNCHANGED <<sysVars, raceVars, v1Vars, avVars, eventLog, lastCall, extVars>>
    \/ \E secret \in Secrets, eventId \in CircuitEventIds :
           /\ PassportDisclose(secret, [i \in 1..11 |-> Num(1)], eventId)
           /\ UNCHANGED <<sysVars, raceVars, v1Vars, avVars, eventLog, lastCall, extVars>>
    \/ \E k \in LeafPositions, root \in {FixtureRoot} \cup OtherRoots :
           /\ RunMerkleTreeVerifier(k, SiblingPath(FixtureLeaves, k), IndexBits(k), root)
           /\ UNCHANGED <<sysVars, raceVars, v1Vars, avVars, eventLog, lastCall, extVars>>
    \/ \E k \in LeafPositions, i \in 1..Levels, j \in 1..Levels :
           /\ i < j
           /\ RunMerkleTreeVerifier(k, SwapSiblings(SiblingPath(FixtureLeaves, k), i, j),
                                    IndexBits(k), FixtureRoot)
           /\ UNCHANGED <<sysVars, raceVars, v1Vars, avVars, eventLog, lastCall, extVars>>

CircuitSpec == Init /\ [][CircuitNext]_vars

\* The sparse non-inclusion verifier, asked about every key against every
\* tree: with the siblings of the key's own slot and every flag, with the
\* siblings of the neighbouring slot, and against the root of the empty tree.
SparseNext ==
    \/ \E occupant \in SmtTrees, key \in SmtKeys, oldKey \in OldKeys :
           \E isOld0 \in Flags(key, oldKey, Num(1)) :
               /\ Num2BitsOk(SmtLevels, key)
               /\ RunSparseMerkleTreeNonInclusion(occupant, key, SmtRoot(occupant),
                      SmtSiblings(occupant, key[2]), isOld0, oldKey, Num(1))
               /\ UNCHANGED <<sysVars, raceVars, v1Vars, avVars, eventLog, lastCall, extVars>>
    \/ \E occupant \in SmtTrees, key \in SmtKeys, oldValue \in OldValues, isOld0 \in {Num(0), Num(1)} :
           /\ Num2BitsOk(SmtLevels, key)
           /\ RunSparseMerkleTreeNonInclusion(occupant, key, SmtRoot(occupant),
                  SmtSiblings(occupant, SmtNext(key[2])), isOld0, key, oldValue)
           /\ UNCHANGED <<sysVars, raceVars, v1Vars, avVars, eventLog, lastCall, extVars>>
    \/ \E occupant \in SmtTrees, key \in SmtKeys, isOld0 \in {Num(0), Num(1)} :
           /\ Num2BitsOk(SmtLevels, key)
           /\ RunSparseMerkleTreeNonInclusion(occupant, key, SmtRoot([k \in SmtSlots |-> NoKey]),
                  SmtSiblings(occupant, key[2]), isOld0, Num(SmtNext(key[2])), Num(1))
           /\ UNCHANGED <<sysVars, raceVars, v1Vars, avVars, eventLog, lastCall, extVars>>

SparseSpec == Init /\ [][SparseNext]_vars

\* The gateway under its owner's administration: the verifier contracts and
\* the registry it points at are set, roots are published on the registry it
\* points at, and a user submits age verifications, whose events are logged.
LedgerNext ==
    \/ \E v \in VerifierAddrs :
           /\ setVerifiers(OwnerAddr, v, v)
           /\ UNCHANGED <<raceVars, v1Vars, restVars>>
    \/ \E s \in Callers, r \in RegistryAddrs :
           /\ setRegistry(s, r)
           /\ UNCHANGED <<raceVars, v1Vars, restVars>>
    \/ \E r \in Roots :
           /\ updateRoots(OwnerAddr, r, r)
           /\ UNCHANGED <<raceVars, v1Vars, restVars>>
    \/ \E e \in EventIds, p \in AgeProofs :
           /\ verifyAgeWithNullifier(UserAddr, 0, e, p)
           /\ eventLog' = eventLog \o verifyAgeWithNullifierEvents(UserAddr, 0, e, p)
           /\ UNCHANGED <<raceVars, v1Vars, avVars, circuitRun, lastCall, extVars>>

LedgerSpec == Init /\ [][LedgerNext]_vars

\* The four production circuits, run one after another by holders of the
\* secrets, for every event id offered.
ProdNext ==
    \/ \E secret \in Secrets, birthYear \in BirthYears, eventId \in ProdEventIds :
           /\ RunProd("AgeVerify", secret, birthYear, eventId)
           /\ UNCHANGED <<sysVars, raceVars, v1Vars, avVars, eventLog, lastCall, extVars>>
    \/ \E secret \in Secrets, birthYear \in BirthYears, eventId \in ProdEventIds :
           /\ RunProd("JurisdictionVerify", secret, birthYear, eventId)
           /\ UNCHANGED <<sysVars, raceVars, v1Vars, avVars, eventLog, lastCall, extVars>>
    \/ \E secret \in Secrets, birthYear \in BirthYears, eventId \in ProdEventIds :
           /\ RunProd("AccreditedVerify", secret, birthYear, eventId)
           /\ UNCHANGED <<sysVars, raceVars, v1Vars, avVars, eventLog, lastCall, extVars>>
    \/ \E secret \in Secrets, birthYear \in BirthYears, eventId \in ProdEventIds :
           /\ RunProd("AMLVerify", secret, birthYear, eventId)
           /\ UNCHANGED <<sysVars, raceVars, v1Vars, avVars, eventLog, lastCall, extVars>>

ProdSpec == Init /\ [][ProdNext]_vars

\* updateRoots interleaved with a verification in flight: roots are
\* published before the submission, between submission and execution, and
\* after the execution.
InterleaveNext ==
    \/ /\ setVerifiers(OwnerAddr, Groth16Addr, Groth16Addr)
       /\ UNCHANGED <<raceVars, v1Vars, restVars>>
    \/ \E r \in Roots, v \in Roots :
           /\ updateRoots(OwnerAddr, r, v)
           /\ UNCHANGED <<raceVars, v1Vars, restVars>>
    \/ \E c \in InFlightCalls : SubmitOne(c)
    \/ Len(pending) = 1 /\ ExecRacer(1)

InterleaveSpec == Init /\ [][InterleaveNext]_vars

\* Roots published again and again as time passes, each publication logged,
\* beside a user's age verifications.
RepublishNext ==
    \/ Tick
    \/ /\ setVerifiers(OwnerAddr, Groth16Addr, Groth16Addr)
       /\ UNCHANGED <<raceVars, v1Vars, restVars>>
    \/ \E r \in Roots :
           /\ Len(eventLog) < MaxUpdates
           /\ updateRoots(OwnerAddr, r, r)
           /\ eventLog' = eventLog \o updateRootsEvents(OwnerAddr, r, r)
           /\ UNCHANGED <<raceVars, v1Vars, avVars, circuitRun, lastCall, extVars>>
    \/ \E c \in InFlightCalls :
           /\ callStep(c)
           /\ UNCHANGED <<raceVars, v1Vars, restVars>>

RepublishSpec == Init /\ [][RepublishNext]_vars

\* MPassAgeVerifier under every caller, each call seen by its caller.
AvNullifiers == {TestNullifier, TestNullifier + 1}
AvPubSignals ==
    {PubSignals(c, n, v, m, e) : c \in Commitments, n \in AvNullifiers, v \in {0, 1},
                                 m \in {MaxAge}, e \in EventIds}
AgeVerifierNext ==
    \/ \E s \in Callers, c \in Commitments :
           /\ avRegisterCredential(s, c)
           /\ Sees("MPassAgeVerifier.registerCredential", <<s, c>>, avRegisterCredentialRes(s, c), "")
           /\ UNCHANGED <<sysVars, raceVars, v1Vars, eventLog, circuitRun, extVars>>
    \/ \E s \in Callers, ps \in AvPubSignals, acc \in BOOLEAN :
           /\ verifyAgeProof(s, ps, acc)
           /\ Sees("MPassAgeVerifier.verifyAgeProof", <<s, ps, acc>>, verifyAgeProofRes(s, ps, acc),
                   Returned(verifyAgeProofReturn(s, ps, acc)))
           /\ UNCHANGED <<sysVars, raceVars, v1Vars, eventLog, circuitRun, extVars>>
    \/ \E ps \in AvPubSignals, acc \in BOOLEAN :
           /\ avVerifyProofOnly(ps, acc)
           /\ Sees("MPassAgeVerifier.verifyProofOnly", <<ps, acc>>, "ok",
                   Returned(avVerifyProofOnlyReturn(ps, acc)))
           /\ UNCHANGED <<sysVars, raceVars, v1Vars, eventLog, circuitRun, extVars>>

AgeVerifierSpec == Init /\ [][AgeVerifierNext]_vars

\* Public signals submitted to MPassAgeVerifier beside the gateway calls:
\* one commitment, every nullifier, ageValid 0 or 1.
VerifyOnlyPubSignals ==
    {PubSignals(c, n, v, MaxAge, 0) : c \in {1}, n \in Nullifiers, v \in {0, 1}}

\* The verify-only entry points of both verifiers beside the authoritative
\* ones, each call seen by its caller.  The gateway is configured by its
\* owner, roots are published by the registry's owner.
VerifyOnlyNext ==
    \/ \E v \in VerifierAddrs :
           /\ setVerifiers(OwnerAddr, v, v)
           /\ Sees("MPassVerifierV2.setVerifiers", <<v>>, setVerifiersRes(OwnerAddr, v, v), "")
           /\ UNCHANGED <<raceVars, v1Vars, avVars, eventLog, circuitRun, extVars>>
    \/ \E r \in Roots, v \in Roots :
           /\ updateRoots(OwnerAddr, r, v)
           /\ Sees("MPassRegistryV2.updateRoots", <<r, v>>, updateRootsRes(OwnerAddr, r, v), "")
           /\ UNCHANGED <<raceVars, v1Vars, avVars, eventLog, circuitRun, extVars>>
    \/ \E call \in GatewayCalls :
           /\ call.fn = "verifyAgeWithNullifier" /\ call.minAge = 0
           /\ callStep(call)
           /\ Sees(call.fn, <<call.eventId>>, callRes(call), "")
           /\ UNCHANGED <<raceVars, v1Vars, avVars, eventLog, circuitRun, extVars>>
    \/ \E v \in VerifierAddrs, p \in AgeProofs :
           /\ verifyProofOnly(v, p)
           /\ Sees("MPassVerifierV2.verifyProofOnly", p, verifyProofOnlyRes(v, p),
                   Returned(verifyProofOnlyReturn(v, p)))
           /\ UNCHANGED <<raceVars, v1Vars, avVars, eventLog, circuitRun, extVars>>
    \/ \E ps \in VerifyOnlyPubSignals, acc \in BOOLEAN :
           /\ verifyAgeProof(UserAddr, ps, acc)
           /\ Sees("MPassAgeVerifier.verifyAgeProof", <<ps, acc>>,
                   verifyAgeProofRes(UserAddr, ps, acc),
                   Returned(verifyAgeProofReturn(UserAddr, ps, acc)))
           /\ UNCHANGED <<sysVars, raceVars, v1Vars, eventLog, circuitRun, extVars>>
    \/ \E ps \in VerifyOnlyPubSignals, acc \in BOOLEAN :
           /\ avVerifyProofOnly(ps, acc)
           /\ Sees("MPassAgeVerifier.verifyProofOnly", <<ps, acc>>, "ok",
                   Returned(avVerifyProofOnlyReturn(ps, acc)))
           /\ UNCHANGED <<sysVars, raceVars, v1Vars, eventLog, circuitRun, extVars>>

VerifyOnlySpec == Init /\ [][VerifyOnlyNext]_vars

\* The gateway and the ledgers with the event log kept: the verification
\* entry points under every caller, and the registry's ledger functions called
\* directly.  eventLog holds the ledger and verification events.
EventNext ==
    \/ \E v \in VerifierAddrs :
           /\ setVerifiers(OwnerAddr, v, v)
           /\ UNCHANGED <<raceVars, v1Vars, restVars>>
    \/ \E r \in Roots, v \in Roots :
           /\ updateRoots(OwnerAddr, r, v)
           /\ UNCHANGED <<raceVars, v1Vars, restVars>>
    \/ \E s \in Callers, m \in Ages, e \in EventIds, p \in AgeProofs :
           /\ verifyAgeWithNullifier(s, m, e, p)
           /\ eventLog' = eventLog \o verifyAgeWithNullifierEvents(s, m, e, p)
           /\ UNCHANGED <<raceVars, v1Vars, avVars, circuitRun, lastCall, extVars>>
    \/ \E s \in Callers, e \in EventIds, p \in PassportProofs :
           /\ verifyPassportDisclosure(s, e, p)
           /\ eventLog' = eventLog \o verifyPassportDisclosureEvents(s, e, p)
           /\ UNCHANGED <<raceVars, v1Vars, avVars, circuitRun, lastCall, extVars>>
    \/ \E n \in Nullifiers :
           /\ useNullifier(UserAddr, n)
           /\ eventLog' = eventLog \o useNullifierEvents(UserAddr, n)
           /\ UNCHANGED <<raceVars, v1Vars, avVars, circuitRun, lastCall, extVars>>
    \/ \E e \in EventIds, n \in Nullifiers :
           /\ useEventNullifier(UserAddr, e, n)
           /\ eventLog' = eventLog \o useEventNullifierEvents(UserAddr, e, n)
           /\ UNCHANGED <<raceVars, v1Vars, avVars, circuitRun, lastCall, extVars>>

EventSpec == Init /\ [][EventNext]_vars

\* MPassRegistry's credentials over time: two users, one hash, credentials
\* that expire while the model runs and credentials that do not.
ValidityNext ==
    \/ Tick
    \/ \E a \in Callers : v1AddIssuer(OwnerAddr, a) /\ UNCHANGED <<sysVars, raceVars, restVars>>
    \/ \E a \in Callers : v1RemoveIssuer(OwnerAddr, a) /\ UNCHANGED <<sysVars, raceVars, restVars>>
    \/ \E s \in Callers, u \in Callers, h \in CredentialHashes,
          t \in CredentialTypes, x \in Expiries \cup {MaxTime + 1} :
           issueCredential(s, u, h, t, x) /\ UNCHANGED <<sysVars, raceVars, restVars>>
    \/ \E s \in Callers, u \in Callers, h \in CredentialHashes :
           v1RevokeCredential(s, u, h) /\ UNCHANGED <<sysVars, raceVars, restVars>>

ValiditySpec == Init /\ [][ValidityNext]_vars

\* MPassRegistry's per-type lists: two users, two hashes, every type, at one
\* point in time.
IssuanceNext ==
    \/ \E a \in Callers : v1AddIssuer(OwnerAddr, a) /\ UNCHANGED <<sysVars, raceVars, restVars>>
    \/ \E a \in Callers : v1RemoveIssuer(OwnerAddr, a) /\ UNCHANGED <<sysVars, raceVars, restVars>>
    \/ \E s \in Callers, u \in Callers, h \in IssuedHashes,
          t \in CredentialTypes, x \in {1, MaxTime + 1} :
           issueCredential(s, u, h, t, x) /\ UNCHANGED <<sysVars, raceVars, restVars>>
    \/ \E s \in Callers, u \in Callers, h \in IssuedHashes :
           v1RevokeCredential(s, u, h) /\ UNCHANGED <<sysVars, raceVars, restVars>>

IssuanceSpec == Init /\ [][IssuanceNext]_vars

\* ============================================================== claims ==
RegistryCallers == Callers \cup {GatewayAddr}

\* ---- C1 ----------------------------------------------------------------
\* C1: useNullifier(n) and useEventNullifier(e, n) each succeed at most once:
\* a successful call marks its ledger entry, a marked entry makes every
\* later call with the same arguments revert, whoever calls, and a marked
\* entry is never unmarked.
C1_UsedReverts ==
    \A s \in RegistryCallers, n \in Nullifiers, e \in EventIds :
        /\ isNullifierUsed(n) => useNullifierRes(s, n) = "Nullifier already used"
        /\ isEventNullifierUsed(e, n) =>
               useEventNullifierRes(s, e, n) = "Nullifier already used for this event"
C1_Step ==
    /\ nullifierUsed \subseteq nullifierUsed'
    /\ eventNullifierUsed \subseteq eventNullifierUsed'
    /\ sysVars' # sysVars =>
           /\ \A s \in RegistryCallers, n \in Nullifiers :
                  (useNullifierRes(s, n) = "ok" /\ useNullifier(s, n))
                      => isNullifierUsed(n)'
           /\ \A s \in RegistryCallers, n \in Nullifiers, e \in EventIds :
                  (useEventNullifierRes(s, e, n) = "ok" /\ useEventNullifier(s, e, n))
                      => isEventNullifierUsed(e, n)'
C1_NullifierSingleUse == [](C1_UsedReverts) /\ [][C1_Step]_vars
\* a nullifier consumed globally and in an event scope, both now rejected
C1_Witness ==
    /\ isNullifierUsed(TestNullifier)
    /\ isEventNullifierUsed(1, TestNullifier)
    /\ useNullifierRes(UserAddr, TestNullifier) # "ok"
    /\ useEventNullifierRes(UserAddr, 1, TestNullifier) # "ok"

\* ---- C3 ----------------------------------------------------------------
\* C3: consuming n in event scope e1 changes neither the global ledger nor
\* any other event scope, and consuming n globally changes no event scope;
\* whether n can be consumed in a scope depends on that scope's entry alone.
C3_OwnEntryDecides ==
    \A s \in RegistryCallers, n \in Nullifiers, e \in EventIds :
        /\ (useEventNullifierRes(s, e, n) = "ok") <=> ~isEventNullifierUsed(e, n)
        /\ (useNullifierRes(s, n) = "ok") <=> ~isNullifierUsed(n)
C3_Step ==
    sysVars' # sysVars =>
        /\ \A s \in RegistryCallers, n \in Nullifiers, e1 \in EventIds :
               (useEventNullifierRes(s, e1, n) = "ok" /\ useEventNullifier(s, e1, n)) =>
                   /\ nullifierUsed' = nullifierUsed
                   /\ eventNullifierUsed' \ {<<e1, n>>} = eventNullifierUsed
        /\ \A s \in RegistryCallers, n \in Nullifiers :
               (useNullifierRes(s, n) = "ok" /\ useNullifier(s, n)) =>
                   eventNullifierUsed' = eventNullifierUsed
C3_ScopeIsolation == [](C3_OwnEntryDecides) /\ [][C3_Step]_vars
\* n consumed in event scope 1, still consumable in scope 0 and globally
C3_Witness ==
    /\ isEventNullifierUsed(1, TestNullifier)
    /\ ~isEventNullifierUsed(0, TestNullifier)
    /\ ~isNullifierUsed(TestNullifier)
    /\ useEventNullifierRes(UserAddr, 0, TestNullifier) = "ok"
    /\ useNullifierRes(UserAddr, TestNullifier) = "ok"

\* ---- gateway calls, as the claims quantify over them --------------------
AllGatewayCalls ==
    {AgeCall(s, m, e, p) : s \in Callers, m \in Ages, e \in EventIds, p \in AgeProofs}
    \cup {PassportCall(s, e, p) : s \in Callers, e \in EventIds, p \in PassportProofs}
callInputs(call) == _decodeProof(call.proof)
\* the slots of the registry root, the revocation root and the scope
rootSlot(call) == IF call.fn = "verifyAgeWithNullifier" THEN 5 ELSE 1
scopeSlot(call) == IF call.fn = "verifyAgeWithNullifier" THEN 7 ELSE 3
embedsRoots(call) ==
    call.proof.length >= ProofHeadBytes /\ Len(callInputs(call)) >= rootSlot(call) + 1
embedsScope(call) ==
    call.proof.length >= ProofHeadBytes /\ Len(callInputs(call)) >= scopeSlot(call)
statementRoots(call) ==
    <<callInputs(call)[rootSlot(call)], callInputs(call)[rootSlot(call) + 1]>>
statementScope(call) == callInputs(call)[scopeSlot(call)]
liveRoots == <<roots.registryRoot, roots.revocationRoot>>
AlreadyConsumed ==
    {"Nullifier already used", "Nullifier already used for event", "Nullifier used for event"}

\* ---- C2 ----------------------------------------------------------------
\* C2: of two submitted verifications that carry the same nullifier in the
\* same scope, each acceptable when submitted, exactly one succeeds and the
\* other fails as already consumed, in either order of execution; never
\* both succeed, and both calls complete.
C2_Done == phase = "racing" /\ outcome[1] # "pending" /\ outcome[2] # "pending"
C2_ExactlyOne ==
    C2_Done =>
        \/ outcome[1] = "ok" /\ outcome[2] \in AlreadyConsumed
        \/ outcome[2] = "ok" /\ outcome[1] \in AlreadyConsumed
C2_NeverBoth == phase = "racing" => ~(outcome[1] = "ok" /\ outcome[2] = "ok")
C2_RaceHasOneWinner ==
    /\ [](C2_ExactlyOne /\ C2_NeverBoth)
    /\ (phase = "racing") ~> C2_Done
\* the call submitted second won, against a call of the other entry point
C2_Witness ==
    /\ C2_Done
    /\ outcome[2] = "ok" /\ outcome[1] \in AlreadyConsumed
    /\ pending[1].fn # pending[2].fn
    /\ pending[1].eventId # 0

\* ---- C4 ----------------------------------------------------------------
\* C4: a verification whose statement embeds roots that differ from the
\* registry's current roots, in either component, is rejected and consumes
\* nothing, whatever the oracle says, in every reachable state: so after
\* an updateRoots that changes a root, every statement built against the
\* old roots is rejected.
C4_StaleRejected ==
    \A call \in AllGatewayCalls :
        (embedsRoots(call) /\ statementRoots(call) # liveRoots) => callRes(call) # "ok"
C4_Step ==
    /\ <<nullifierUsed, eventNullifierUsed>>' # <<nullifierUsed, eventNullifierUsed>> =>
           \A call \in AllGatewayCalls :
               (embedsRoots(call) /\ statementRoots(call) # liveRoots) => ~callStep(call)
C4_FreshnessEnforced == [](C4_StaleRejected) /\ [][C4_Step]_vars
\* roots advanced to (1, 1); an oracle-accepted statement built against the
\* old roots (0, 0), whose nullifier is unconsumed, is rejected by both
\* entry points
C4_Witness ==
    /\ liveRoots = <<1, 1>>
    /\ ageVerifier = Groth16Addr /\ passportVerifier = Groth16Addr
    /\ ~isNullifierUsed(TestNullifier)
    /\ verifyAgeWithNullifierRes(UserAddr, 0, 0,
           ProofOf(AgeStatement(0, 0, 0, 0, TestNullifier), TRUE)) = "Invalid registry root"
    /\ verifyPassportDisclosureRes(UserAddr, 0,
           ProofOf(PassportStatement(1, 0, 0, TestNullifier), TRUE))
               = "Invalid revocation root"

\* ---- C5 ----------------------------------------------------------------
\* C5: both consuming entry points reject a call whose eventId differs from
\* the scope embedded in the statement's public inputs.
C5_ScopeMismatchRejected ==
    \A call \in AllGatewayCalls :
        (embedsScope(call) /\ statementScope(call) # call.eventId) => callRes(call) # "ok"

\* ---- C6 ----------------------------------------------------------------
\* C6: a failing call of a registry or gateway operation emits no event and
\* leaves the registry and the gateway exactly as they were.
C6_NoEventOnFailure ==
    /\ \A s \in Callers, r \in Roots, v \in Roots :
           updateRootsRes(s, r, v) # "ok" => updateRootsEvents(s, r, v) = << >>
    /\ \A s \in Callers, c \in Commitments :
           /\ registerCredentialRes(s, c) # "ok" => registerCredentialEvents(s, c) = << >>
           /\ revokeCredentialRes(s, c) # "ok" => revokeCredentialEvents(s, c) = << >>
    /\ \A s \in Callers, cs \in Batches :
           /\ batchRegisterCredentialsRes(s, cs) # "ok"
                  => batchRegisterCredentialsEvents(s, cs) = << >>
           /\ batchRevokeCredentialsRes(s, cs) # "ok"
                  => batchRevokeCredentialsEvents(s, cs) = << >>
    /\ \A s \in Callers, n \in Nullifiers, e \in EventIds :
           /\ useNullifierRes(s, n) # "ok" => useNullifierEvents(s, n) = << >>
           /\ useEventNullifierRes(s, e, n) # "ok"
                  => useEventNullifierEvents(s, e, n) = << >>
    /\ \A s \in Callers, m \in Ages, e \in EventIds, p \in AgeProofs :
           verifyAgeWithNullifierRes(s, m, e, p) # "ok"
               => verifyAgeWithNullifierEvents(s, m, e, p) = << >>
    /\ \A s \in Callers, e \in EventIds, p \in PassportProofs :
           verifyPassportDisclosureRes(s, e, p) # "ok"
               => verifyPassportDisclosureEvents(s, e, p) = << >>
C6_Step ==
    sysVars' # sysVars =>
        /\ \A s \in Callers, r \in Roots, v \in Roots :
               updateRootsRes(s, r, v) # "ok" => ~updateRoots(s, r, v)
        /\ \A s \in Callers, c \in Commitments :
               /\ registerCredentialRes(s, c) # "ok" => ~registerCredential(s, c)
               /\ revokeCredentialRes(s, c) # "ok" => ~revokeCredential(s, c)
        /\ \A s \in Callers, cs \in Batches :
               /\ batchRegisterCredentialsRes(s, cs) # "ok"
                      => ~batchRegisterCredentials(s, cs)
               /\ batchRevokeCredentialsRes(s, cs) # "ok"
                      => ~batchRevokeCredentials(s, cs)
        /\ \A s \in Callers, n \in Nullifiers, e \in EventIds :
               /\ useNullifierRes(s, n) # "ok" => ~useNullifier(s, n)
               /\ useEventNullifierRes(s, e, n) # "ok" => ~useEventNullifier(s, e, n)
        /\ \A s \in Callers, av \in VerifierAddrs, pv \in VerifierAddrs :
               setVerifiersRes(s, av, pv) # "ok" => ~setVerifiers(s, av, pv)
        /\ \A s \in Callers, a \in Addresses :
               verifierTransferOwnershipRes(s, a) # "ok" => ~verifierTransferOwnership(s, a)
        /\ \A s \in Callers, m \in Ages, e \in EventIds, p \in AgeProofs :
               verifyAgeWithNullifierRes(s, m, e, p) # "ok"
                   => ~verifyAgeWithNullifier(s, m, e, p)
        /\ \A s \in Callers, e \in EventIds, p \in PassportProofs :
               verifyPassportDisclosureRes(s, e, p) # "ok"
                   => ~verifyPassportDisclosure(s, e, p)
C6_FailureIsAtomic == [](C6_NoEventOnFailure) /\ [][C6_Step]_vars
\* a state in which calls fail for each of the reasons: unauthorized,
\* duplicate registration, double revocation, stale roots, scope mismatch,
\* rejected proof, consumed nullifier, malformed statement
C6_Witness ==
    /\ liveRoots = <<1, 0>>
    /\ registerCredentialRes(UserAddr, 1) = "Not authorized issuer"
    /\ registerCredentialRes(OwnerAddr, 1) = "Already registered"
    /\ revokeCredentialRes(OwnerAddr, 1) = "Already revoked"
    /\ verifyAgeWithNullifierRes(UserAddr, 0, 0,
           ProofOf(AgeStatement(0, 0, 0, 0, TestNullifier), TRUE)) = "Invalid registry root"
    /\ verifyAgeWithNullifierRes(UserAddr, 0, 0,
           ProofOf(AgeStatement(0, 1, 0, 1, TestNullifier), TRUE)) = "Event ID mismatch"
    /\ verifyAgeWithNullifierRes(UserAddr, 0, 0,
           ProofOf(AgeStatement(0, 1, 0, 0, TestNullifier), FALSE)) = "Invalid proof"
    /\ verifyAgeWithNullifierRes(UserAddr, 0, 0,
           ProofOf(AgeStatement(0, 1, 0, 0, TestNullifier), TRUE)) = "Nullifier already used"
    /\ verifyAgeWithNullifierRes(UserAddr, 0, 0,
           ProofOf(Prefix(AgeStatement(0, 1, 0, 0, TestNullifier), AgeMinInputs - 1), TRUE))
               = "Invalid public inputs"

\* ---- C7 ----------------------------------------------------------------
\* C7: a ledger entry becomes marked only by a successful gateway
\* verification of a statement that carries the nullifier.
C7_OnlyGatewayConsumes ==
    [][(nullifierUsed' # nullifierUsed \/ eventNullifierUsed' # eventNullifierUsed) =>
          \E call \in AllGatewayCalls : callRes(call) = "ok" /\ callStep(call)]_vars

\* ---- C8 ----------------------------------------------------------------
\* C8 as stated: once c is registered, every registerCredential(c) reverts
\* with 'Already registered'.
C8_AlwaysAlreadyRegistered ==
    \A s \in Callers, c \in Commitments :
        c \in credentialExists => registerCredentialRes(s, c) = "Already registered"
\* C8 as amended: once c is registered, every registerCredential(c) reverts,
\* with 'Already registered' when the caller is an authorized issuer and
\* with 'Not authorized issuer' otherwise, and isCredentialValid(c) stays
\* true for as long as c is not revoked.
C8_Reverts ==
    \A s \in Callers, c \in Commitments :
        c \in credentialExists =>
            registerCredentialRes(s, c) =
                IF s \in authorizedIssuers THEN "Already registered"
                ELSE "Not authorized issuer"
C8_Step ==
    \A c \in Commitments :
        isCredentialValid(c) => (isCredentialValid(c)' \/ c \in credentialRevoked')
C8_RegistrationIdempotence == [](C8_Reverts) /\ [][C8_Step]_vars
\* c registered and valid; a second registration fails for the issuer and
\* for a caller without the role
C8_Witness ==
    /\ isCredentialValid(1)
    /\ registerCredentialRes(OwnerAddr, 1) = "Already registered"
    /\ registerCredentialRes(UserAddr, 1) = "Not authorized issuer"

\* ---- C9 ----------------------------------------------------------------
\* C9: once c is marked revoked it stays marked, and isCredentialValid(c) is
\* false, in every later state.
C9_RevokedInvalid ==
    \A c \in Commitments : c \in credentialRevoked => ~isCredentialValid(c)
C9_Step == credentialRevoked \subseteq credentialRevoked'
C9_RevocationMonotonic == [](C9_RevokedInvalid) /\ [][C9_Step]_vars
\* c revoked, and after that another registration, a root update, a
\* nullifier use and a role change
C9_Witness ==
    /\ 1 \in credentialRevoked /\ ~isCredentialValid(1)
    /\ isCredentialValid(2)
    /\ liveRoots = <<1, 1>>
    /\ isNullifierUsed(TestNullifier)
    /\ authorizedIssuers = {UserAddr}

\* ---- C10 ---------------------------------------------------------------
\* C10: every revoked commitment is registered, and a registered commitment
\* stays registered.
C10_RevokedRegistered == credentialRevoked \subseteq credentialExists
C10_Step == credentialExists \subseteq credentialExists'
C10_RevokedImpliesRegistered == [](C10_RevokedRegistered) /\ [][C10_Step]_vars
\* one commitment revoked, the other only registered
C10_Witness ==
    /\ credentialExists = Commitments
    /\ credentialRevoked = {2}

\* ---- C11 ---------------------------------------------------------------
\* C11: a credential-mutating operation of either registry, called by an
\* address that does not hold that registry's issuer role at the time, is
\* rejected and changes no credential state: holding the updater role does
\* not help, and an issuer that was removed no longer passes.
C11_NonIssuerRejected ==
    \A s \in Callers :
        /\ s \notin authorizedIssuers =>
               /\ \A c \in Commitments :
                      /\ registerCredentialRes(s, c) = "Not authorized issuer"
                      /\ revokeCredentialRes(s, c) = "Not authorized issuer"
               /\ \A cs \in Batches :
                      /\ batchRegisterCredentialsRes(s, cs) = "Not authorized issuer"
                      /\ batchRevokeCredentialsRes(s, cs) = "Not authorized issuer"
        /\ s \notin v1AuthorizedIssuers =>
               \A u \in Users, h \in CredentialHashes :
                   /\ v1RevokeCredentialRes(s, u, h) = "Not authorized issuer"
                   /\ \A t \in CredentialTypes, x \in Expiries :
                          issueCredentialRes(s, u, h, t, x) = "Not authorized issuer"
C11_Step ==
    /\ <<credentialExists, credentialRevoked>>' # <<credentialExists, credentialRevoked>> =>
           \A s \in Callers \ authorizedIssuers :
               /\ \A c \in Commitments :
                      ~registerCredential(s, c) /\ ~revokeCredential(s, c)
               /\ \A cs \in Batches :
                      ~batchRegisterCredentials(s, cs) /\ ~batchRevokeCredentials(s, cs)
    /\ <<credentials, userCredentialsByType>>' # <<credentials, userCredentialsByType>> =>
           \A s \in Callers \ v1AuthorizedIssuers, u \in Users, h \in CredentialHashes :
               /\ ~v1RevokeCredential(s, u, h)
               /\ \A t \in CredentialTypes, x \in Expiries : ~issueCredential(s, u, h, t, x)
C11_OnlyIssuersMutate == [](C11_NonIssuerRejected) /\ [][C11_Step]_vars
\* the former issuer OwnerAddr was removed after registering and revoking,
\* UserAddr holds the updater role only; neither passes, in either registry
C11_Witness ==
    /\ authorizedIssuers = {}
    /\ UserAddr \in authorizedUpdaters
    /\ credentialExists = Commitments /\ credentialRevoked = {1}
    /\ registerCredentialRes(OwnerAddr, 1) = "Not authorized issuer"
    /\ revokeCredentialRes(UserAddr, 2) = "Not authorized issuer"
    /\ v1AuthorizedIssuers = {}
    /\ getCredential(UserAddr, TestCredentialHash).issuedAt # 0
    /\ v1RevokeCredentialRes(OwnerAddr, UserAddr, TestCredentialHash) = "Not authorized issuer"

\* ---- C12 ---------------------------------------------------------------
\* C12: updateRoots reverts and leaves the roots record unchanged when the
\* caller is neither an authorized updater nor an authorized issuer; for a
\* caller holding either role it succeeds for every pair of root values,
\* whatever the credential maps hold, and stores the pair.
C12_RoleDecides ==
    \A s \in Callers, r \in Roots, v \in Roots :
        updateRootsRes(s, r, v) =
            IF s \in authorizedUpdaters \/ s \in authorizedIssuers
            THEN "ok" ELSE "Not authorized updater"
C12_Step ==
    roots' # roots =>
        \A s \in Callers, r \in Roots, v \in Roots :
            updateRoots(s, r, v) =>
                /\ s \in authorizedUpdaters \/ s \in authorizedIssuers
                /\ roots'.registryRoot = r /\ roots'.revocationRoot = v
                /\ UNCHANGED <<credentialExists, credentialRevoked>>
C12_UpdateRootsAuthorization == [](C12_RoleDecides) /\ [][C12_Step]_vars
\* UserAddr an issuer but no updater, OwnerAddr stripped of both roles, a
\* commitment revoked, roots already advanced
C12_Witness ==
    /\ UserAddr \in authorizedIssuers /\ UserAddr \notin authorizedUpdaters
    /\ OwnerAddr \notin authorizedIssuers /\ OwnerAddr \notin authorizedUpdaters
    /\ credentialRevoked = {1} /\ credentialExists = {1}
    /\ roots.registryRoot = 1 /\ roots.revocationRoot = 1
    /\ updateRootsRes(UserAddr, 0, 1) = "ok"
    /\ updateRootsRes(OwnerAddr, 0, 1) = "Not authorized updater"

\* ---- C13 ---------------------------------------------------------------
\* C13: getRoots() returns the zero record until the first successful
\* updateRoots, and from then on the two roots of the most recent
\* successful updateRoots with the timestamp of that call: the record
\* changes only by a successful updateRoots, which replaces all three
\* fields at once.
C13_NeverUpdated ==
    roots.updatedAt = 0 => getRoots = <<0, 0, 0>>
C13_Step ==
    /\ getRoots' # getRoots =>
           \E s \in Callers, r \in Roots, v \in Roots :
               /\ updateRootsRes(s, r, v) = "ok"
               /\ updateRoots(s, r, v)
               /\ getRoots' = <<r, v, now>>
    /\ sysVars' # sysVars =>
           \A s \in Callers, r \in Roots, v \in Roots :
               (updateRootsRes(s, r, v) = "ok" /\ updateRoots(s, r, v))
                   => getRoots' = <<r, v, now>>
C13_RootsRecordAtomic == [](C13_NeverUpdated) /\ [][C13_Step]_vars
\* an update at time 2 that changed one root only
C13_Witness ==
    /\ now = MaxTime
    /\ getRoots = <<1, 0, MaxTime>>

\* ---- C14 ---------------------------------------------------------------
\* C14: the stored updatedAt never decreases and never exceeds the current
\* time, while a holder of the role can move the two roots to any values,
\* values they held before included.
C14_AnyRootsAccepted ==
    /\ roots.updatedAt <= now
    /\ \A s \in Callers :
           updateRootsRes(s, roots.registryRoot, roots.revocationRoot) = "ok" =>
               \A r \in Roots, v \in Roots : updateRootsRes(s, r, v) = "ok"
C14_Step == roots.updatedAt <= roots'.updatedAt
C14_UpdatedAtMonotonic == [](C14_AnyRootsAccepted) /\ [][C14_Step]_vars
\* at the latest time the roots are back at the values they held at
\* deployment, written by an update at that time
C14_Witness ==
    /\ now = MaxTime
    /\ getRoots = <<0, 0, MaxTime>>

\* ---- C15 ---------------------------------------------------------------
\* C15: each registry has one owner at every time, never address(0); its
\* role-administration functions succeed only for the current owner and
\* otherwise revert with 'Not owner', changing no role; after a successful
\* transferOwnership(newOwner) only newOwner passes the owner check.
C15_OwnerDecides ==
    /\ owner # ZeroAddr /\ v1Owner # ZeroAddr
    /\ \A s \in Callers : (_checkOwner(s) = "ok") <=> (s = owner)
    /\ \A s \in Callers : (v1OnlyOwner(s) = "ok") <=> (s = v1Owner)
    /\ \A s \in Callers, a \in Addresses :
           /\ addIssuerRes(s, a) = (IF s = owner THEN "ok" ELSE "Not owner")
           /\ removeIssuerRes(s, a) = (IF s = owner THEN "ok" ELSE "Not owner")
           /\ addUpdaterRes(s, a) = (IF s = owner THEN "ok" ELSE "Not owner")
           /\ removeUpdaterRes(s, a) = (IF s = owner THEN "ok" ELSE "Not owner")
           /\ s # owner => transferOwnershipRes(s, a) = "Not owner"
           /\ transferOwnershipRes(s, a) = "ok" => s = owner
           /\ v1AddIssuerRes(s, a) = (IF s = v1Owner THEN "ok" ELSE "Not owner")
           /\ v1RemoveIssuerRes(s, a) = (IF s = v1Owner THEN "ok" ELSE "Not owner")
           /\ s # v1Owner => v1TransferOwnershipRes(s, a) = "Not owner"
           /\ v1TransferOwnershipRes(s, a) = "ok" => s = v1Owner
C15_Step ==
    /\ <<owner, authorizedIssuers, authorizedUpdaters>>'
           # <<owner, authorizedIssuers, authorizedUpdaters>> =>
           /\ \A s \in Callers \ {owner}, a \in Addresses :
                  /\ ~addIssuer(s, a) /\ ~removeIssuer(s, a)
                  /\ ~addUpdater(s, a) /\ ~removeUpdater(s, a)
                  /\ ~transferOwnership(s, a)
           /\ \A a \in Addresses :
                  transferOwnership(owner, a) =>
                      \A s \in Callers : (_checkOwner(s) = "ok")' <=> (s = a)
    /\ <<v1Owner, v1AuthorizedIssuers>>' # <<v1Owner, v1AuthorizedIssuers>> =>
           /\ \A s \in Callers \ {v1Owner}, a \in Addresses :
                  ~v1AddIssuer(s, a) /\ ~v1RemoveIssuer(s, a) /\ ~v1TransferOwnership(s, a)
           /\ \A a \in Addresses :
                  v1TransferOwnership(v1Owner, a) =>
                      \A s \in Callers : (v1OnlyOwner(s) = "ok")' <=> (s = a)
C15_SingleOwner == [](C15_OwnerDecides) /\ [][C15_Step]_vars
\* ownership of both registries handed to UserAddr, who then changed roles;
\* the former owner no longer passes
C15_Witness ==
    /\ owner = UserAddr /\ v1Owner = UserAddr
    /\ authorizedIssuers = {UserAddr} /\ authorizedUpdaters = {}
    /\ v1AuthorizedIssuers = {UserAddr}
    /\ addIssuerRes(OwnerAddr, OwnerAddr) = "Not owner"
    /\ transferOwnershipRes(OwnerAddr, OwnerAddr) = "Not owner"
    /\ transferOwnershipRes(UserAddr, ZeroAddr) = "Invalid address"
    /\ v1AddIssuerRes(OwnerAddr, OwnerAddr) = "Not owner"

\* ---- batches, as the claims speak of them --------------------------------
Elements(commitments) == {commitments[i] : i \in 1..Len(commitments)}
Emitted(events) == {events[i] : i \in 1..Len(events)}

\* ---- C16 ---------------------------------------------------------------
\* C16: batchRegisterCredentials(cs) by an issuer always succeeds, elements
\* already registered or repeated in cs included; afterwards every element
\* of cs is registered and nothing else changed, and CredentialRegistered
\* was emitted once for each element that was not registered before, and
\* for no other.
C16_EventsForNew ==
    \A s \in Callers \cap authorizedIssuers, cs \in Batches :
        /\ batchRegisterCredentialsRes(s, cs) = "ok"
        /\ LET events == batchRegisterCredentialsEvents(s, cs)
               new == Elements(cs) \ credentialExists
           IN  /\ Emitted(events) = {<<"CredentialRegistered", c, s>> : c \in new}
               /\ Len(events) = Cardinality(new)
C16_Step ==
    sysVars' # sysVars =>
        \A s \in Callers \cap authorizedIssuers, cs \in Batches :
            batchRegisterCredentials(s, cs) =>
                /\ credentialExists' = credentialExists \cup Elements(cs)
                /\ UNCHANGED <<credentialRevoked, owner, authorizedIssuers,
                               authorizedUpdaters, roots, nullifierUsed, eventNullifierUsed>>
C16_BatchRegister == [](C16_EventsForNew) /\ [][C16_Step]_vars
\* commitment 1 registered (and revoked), 2 not: a batch naming 1, and 2
\* twice, succeeds and emits one event, for 2
C16_Witness ==
    /\ credentialExists = {1} /\ credentialRevoked = {1}
    /\ MaxBatch >= 2
    /\ \E cs \in Batches :
           /\ Len(cs) = MaxBatch /\ Elements(cs) = {2}
           /\ batchRegisterCredentialsEvents(OwnerAddr, cs)
                  = << <<"CredentialRegistered", 2, OwnerAddr>> >>
    /\ batchRegisterCredentialsEvents(OwnerAddr, <<1, 2>>)
           = << <<"CredentialRegistered", 2, OwnerAddr>> >>

\* ---- C17 ---------------------------------------------------------------
\* C17: batchRevokeCredentials(cs) by an issuer always succeeds, elements
\* already revoked included; afterwards every element of cs that was
\* registered is revoked, and the maps are those reached by applying
\* revokeCredential, in order, to each element that is registered and not
\* yet revoked.
\* revokeCredential(c) applies when c is registered and not yet revoked,
\* and then marks c revoked
C17_CanRevoke(revoked, c) == c \in credentialExists /\ c \notin revoked
C17_RevokeOne(revoked, c) == revoked \cup {c}
RECURSIVE C17_SingleRevokes(_, _, _)
C17_SingleRevokes(commitments, i, revoked) ==
    IF i > Len(commitments) THEN revoked
    ELSE C17_SingleRevokes(commitments, i + 1,
             IF C17_CanRevoke(revoked, commitments[i])
             THEN C17_RevokeOne(revoked, commitments[i]) ELSE revoked)
C17_NeverFails ==
    /\ \A s \in Callers \cap authorizedIssuers, cs \in Batches :
           batchRevokeCredentialsRes(s, cs) = "ok"
    /\ \A s \in Callers \cap authorizedIssuers, c \in Commitments :
           (revokeCredentialRes(s, c) = "ok") <=> C17_CanRevoke(credentialRevoked, c)
C17_Step ==
    sysVars' # sysVars =>
        /\ \A s \in Callers \cap authorizedIssuers, cs \in Batches :
               batchRevokeCredentials(s, cs) =>
                   /\ credentialRevoked' = C17_SingleRevokes(cs, 1, credentialRevoked)
                   /\ Elements(cs) \cap credentialExists \subseteq credentialRevoked'
                   /\ credentialExists' = credentialExists
        /\ \A s \in Callers \cap authorizedIssuers, c \in Commitments :
               (revokeCredentialRes(s, c) = "ok" /\ revokeCredential(s, c)) =>
                   /\ credentialRevoked' = C17_RevokeOne(credentialRevoked, c)
                   /\ credentialExists' = credentialExists
C17_BatchRevoke == [](C17_NeverFails) /\ [][C17_Step]_vars
\* both commitments registered, 1 already revoked: revokeCredential(1) fails
\* while a batch naming 1 and 2 succeeds
C17_Witness ==
    /\ credentialExists = Commitments /\ credentialRevoked = {1}
    /\ revokeCredentialRes(OwnerAddr, 1) = "Already revoked"
    /\ batchRevokeCredentialsRes(OwnerAddr, <<1, 2>>) = "ok"
    /\ batchRevokeCredentialsEvents(OwnerAddr, <<1, 2>>)
           = << <<"CredentialRevoked", 2, OwnerAddr>> >>

\* ---- C18 ---------------------------------------------------------------
\* C18: batchRevokeCredentials(cs) by an issuer fails with 'Not registered'
\* when some element of cs is not registered, as revokeCredential does.
C18_UnregisteredElementFails ==
    \A s \in Callers \cap authorizedIssuers, cs \in Batches :
        (\E c \in Elements(cs) : revokeCredentialRes(s, c) = "Not registered")
            => batchRevokeCredentialsRes(s, cs) = "Not registered"

\* ---- C19 ---------------------------------------------------------------
\* C19: the gateway's gates are hard and ordered: a call that the gateway
\* accepts, and so every call that marks a nullifier, carries a statement
\* whose roots are the registry's current roots and a proof the verifier
\* contract accepted; a stale statement is turned away before the oracle's
\* answer or the ledger is looked at, and a rejected proof before the
\* ledger is looked at.
callVerifier(call) ==
    IF call.fn = "verifyAgeWithNullifier" THEN ageVerifier ELSE passportVerifier
C19_GatesPassed(call) ==
    /\ embedsRoots(call) /\ statementRoots(call) = liveRoots
    /\ _verifyGroth16(callVerifier(call), call.proof)
C19_GatesInOrder ==
    \A call \in AllGatewayCalls :
        /\ callRes(call) = "ok" => C19_GatesPassed(call)
        /\ (embedsRoots(call) /\ statementRoots(call) # liveRoots) =>
               callRes(call) \notin {"ok", "Invalid proof"} \cup AlreadyConsumed
        /\ ~_verifyGroth16(callVerifier(call), call.proof) =>
               callRes(call) \notin {"ok"} \cup AlreadyConsumed
C19_Step ==
    <<nullifierUsed, eventNullifierUsed>>' # <<nullifierUsed, eventNullifierUsed>> =>
        \A call \in AllGatewayCalls : callStep(call) => C19_GatesPassed(call)
C19_HardGates == [](C19_GatesInOrder) /\ [][C19_Step]_vars
\* the nullifier is consumed in scope 1 and the roots are (1, 0): for scope
\* 0 an accepted fresh statement passes, a rejected one fails at the oracle,
\* a stale rejected one at the freshness gate, and for scope 1 a rejected
\* one fails at the oracle, not at the ledger
C19_Witness ==
    /\ liveRoots = <<1, 0>>
    /\ ageVerifier = Groth16Addr
    /\ isEventNullifierUsed(1, TestNullifier) /\ ~isNullifierUsed(TestNullifier)
    /\ verifyAgeWithNullifierRes(UserAddr, 0, 0,
           ProofOf(AgeStatement(0, 1, 0, 0, TestNullifier), TRUE)) = "ok"
    /\ verifyAgeWithNullifierRes(UserAddr, 0, 0,
           ProofOf(AgeStatement(0, 1, 0, 0, TestNullifier), FALSE)) = "Invalid proof"
    /\ verifyAgeWithNullifierRes(UserAddr, 0, 0,
           ProofOf(AgeStatement(0, 0, 0, 0, TestNullifier), FALSE)) = "Invalid registry root"
    /\ verifyAgeWithNullifierRes(UserAddr, 0, 1,
           ProofOf(AgeStatement(0, 1, 0, 1, TestNullifier), FALSE)) = "Invalid proof"
    /\ verifyAgeWithNullifierRes(UserAddr, 0, 1,
           ProofOf(AgeStatement(0, 1, 0, 1, TestNullifier), TRUE))
               = "Nullifier already used for event"

\* ---- C20 ---------------------------------------------------------------
\* C20: the gateway rejects every statement whose number of public fields
\* is not the number its predicate type has.
C20_WrongFieldCountRejected ==
    \A call \in ShapeCalls :
        (/\ call.proof.length >= ProofHeadBytes
         /\ Len(callInputs(call)) #
                (IF call.fn = "verifyAgeWithNullifier"
                 THEN AgeStatementFields ELSE PassportStatementFields))
            => callRes(call) # "ok"
\* ---- C21 ---------------------------------------------------------------
\* C21: for every scope and every predicate type the gateway accepts, the
\* circuit derives the nullifier the way the gateway selects the ledger: the
\* global derivation H(secret, commitment) exactly when the gateway checks
\* the global ledger, the event-bound derivation exactly when it checks the
\* per-event ledger.
C21_GatewayChecksGlobal(eventId) ==
    /\ ~isNullifierUsed(TestNullifier)
    /\ ~isEventNullifierUsed(eventId, TestNullifier)
    /\ consumeEvents(eventId, TestNullifier)[1][1] = "NullifierUsed"
C21_Commitment ==
    IF circuitRun.template = "AgeProofV2"
    THEN circuitRun.credentialCommitment ELSE circuitRun.passportCommitment
C21_SameSelection ==
    circuitRun.template \in {"AgeProofV2", "PassportDisclose"} =>
        LET scope == circuitRun.eventId[2]
            global == circuitRun.nullifier
                          = GlobalNullifier(circuitRun.secret, C21_Commitment)
            eventBound == circuitRun.nullifier
                              = EventBoundNullifier(circuitRun.secret, circuitRun.eventId)
        IN  /\ global <=> C21_GatewayChecksGlobal(scope)
            /\ eventBound <=> ~C21_GatewayChecksGlobal(scope)

\* ---- C30 ---------------------------------------------------------------
\* C30: with a collision-free hash, for the tree of depth Levels built from
\* 2^Levels distinct leaves, MerkleTreeVerifier answers valid for every leaf
\* with its sibling path and index bits against the tree's root, and invalid
\* for that path against any other root and for that path with two distinct
\* siblings exchanged.
C30_Path == SiblingPath(FixtureLeaves, circuitRun.position)
C30_OwnPath ==
    /\ circuitRun.pathElements = C30_Path
    /\ circuitRun.pathIndices = IndexBits(circuitRun.position)
C30_SwappedPath ==
    /\ circuitRun.pathIndices = IndexBits(circuitRun.position)
    /\ \E i \in 1..Levels, j \in 1..Levels :
           /\ i < j
           /\ C30_Path[i] # C30_Path[j]
           /\ circuitRun.pathElements = SwapSiblings(C30_Path, i, j)
C30_MerkleVerifierSound ==
    circuitRun.template = "MerkleTreeVerifier" =>
        /\ (C30_OwnPath /\ circuitRun.root = FixtureRoot) => circuitRun.valid = 1
        /\ (C30_OwnPath /\ circuitRun.root # FixtureRoot) => circuitRun.valid = 0
        /\ (C30_SwappedPath /\ circuitRun.root = FixtureRoot) => circuitRun.valid = 0
        /\ Cardinality({FixtureLeaves[k] : k \in LeafPositions}) = 2^Levels
\* a leaf in a right-hand and a left-hand position on its way up is accepted
C30_Witness ==
    /\ circuitRun.template = "MerkleTreeVerifier"
    /\ circuitRun.position = 5
    /\ C30_OwnPath
    /\ circuitRun.root = FixtureRoot
    /\ circuitRun.valid = 1

\* ---- C22 ---------------------------------------------------------------
\* C22: a verify-only call (MPassVerifierV2.verifyProofOnly,
\* MPassAgeVerifier.verifyProofOnly) changes no state, whether the proof is
\* accepted or rejected: both nullifier ledgers of the registry, the roots,
\* the credential maps and the age verifier's ledger and registry are as
\* before, and an authoritative verification of the same statement has the
\* outcome it would have had before.
C22_VerifyOnly ==
    {"MPassVerifierV2.verifyProofOnly", "MPassAgeVerifier.verifyProofOnly"}
\* a verify-only call never reverts on a well-formed input
C22_Answers ==
    lastCall.fn \in C22_VerifyOnly =>
        \/ lastCall.ret \in {"true", "false"}
        \/ lastCall.fn = "MPassVerifierV2.verifyProofOnly" /\ lastCall.input = ShortProof
C22_Step ==
    lastCall'.fn \in C22_VerifyOnly =>
        /\ UNCHANGED <<registryVars, gatewayVars, avVars, v1Vars>>
        /\ lastCall'.fn = "MPassVerifierV2.verifyProofOnly" =>
               \A p \in AgeProofs, m \in Ages, e \in EventIds :
                   p = lastCall'.input =>
                       verifyAgeWithNullifierRes(UserAddr, m, e, p)'
                           = verifyAgeWithNullifierRes(UserAddr, m, e, p)
        /\ lastCall'.fn = "MPassAgeVerifier.verifyProofOnly" =>
               \A ps \in AvPubSignals, acc \in BOOLEAN :
                   <<ps, acc>> = lastCall'.input =>
                       verifyAgeProofRes(UserAddr, ps, acc)'
                           = verifyAgeProofRes(UserAddr, ps, acc)
C22_VerifyOnlyChangesNothing == [](C22_Answers) /\ [][C22_Step]_vars
\* the gateway's verify-only call has just answered true for a statement
\* whose nullifier is unconsumed, and the authoritative call on the same
\* proof would still succeed and consume it
C22_Witness ==
    /\ lastCall.fn = "MPassVerifierV2.verifyProofOnly"
    /\ lastCall.ret = "true"
    /\ Len(lastCall.input.words) = AgeStatementFields
    /\ ~isNullifierUsed(ageNullifier(_decodeProof(lastCall.input)))
    /\ verifyAgeWithNullifierRes(UserAddr, 0, 0, lastCall.input) = "ok"

\* ---- C23 ---------------------------------------------------------------
\* C23: the gateway's verify-only call answers true only for a statement
\* that passes gates 1 to 4: it has the expected shape, it embeds the
\* registry's current roots, and the verifier contract accepts the proof; a
\* statement with stale roots is not reported valid.
C23_VerifyOnlyRunsGates ==
    \A v \in VerifierAddrs, p \in AgeProofs :
        (verifyProofOnlyRes(v, p) = "ok" /\ verifyProofOnlyReturn(v, p)) =>
            LET publicInputs == _decodeProof(p)
            IN  /\ Len(publicInputs) >= AgeMinInputs
                /\ publicInputs[5] = getRoots[1]
                /\ publicInputs[6] = getRoots[2]
                /\ _verifyGroth16(v, p)

\* ---- C24 ---------------------------------------------------------------
\* C24: every successful gateway verification emits exactly one
\* ProofVerified event, after the ledger write, carrying the caller, the
\* predicate type, the nullifier consumed and the scope it was consumed in; a
\* failed verification emits nothing.  The ProofVerified events in the log
\* therefore list each (scope, nullifier) pair the gateway consumed exactly
\* once, in consumption order.
C24_IsProofVerified(ev) == ev[1] = "ProofVerified"
\* a ledger event whose consumer (msg.sender at the registry) is the gateway
C24_ByGateway(ev) == ev[1] # "ProofVerified" /\ ev[Len(ev)] = GatewayAddr
\* the ledger entry an event speaks of
C24_Slot(ev) ==
    IF ev[1] = "NullifierUsed" THEN <<"global", 0, ev[2]>>
    ELSE IF ev[1] = "EventNullifierUsed" THEN <<"event", ev[2], ev[3]>>
    ELSE IF ev[5] = 0 THEN <<"global", 0, ev[4]>>
    ELSE <<"event", ev[5], ev[4]>>
C24_Ledger ==
    {<<"global", 0, n>> : n \in nullifierUsed}
        \cup {<<"event", q[1], q[2]>> : q \in eventNullifierUsed}
C24_CallEmits(res, events, sender, type, nullifier, eventId) ==
    IF res = "ok"
    THEN /\ Len(events) = 2
         /\ C24_ByGateway(events[1])
         /\ C24_Slot(events[1]) = C24_Slot(events[2])
         /\ events[2] = <<"ProofVerified", sender, type, nullifier, eventId>>
    ELSE events = << >>
C24_EveryCall ==
    /\ \A s \in Callers, m \in Ages, e \in EventIds, p \in AgeProofs :
           C24_CallEmits(verifyAgeWithNullifierRes(s, m, e, p),
                         verifyAgeWithNullifierEvents(s, m, e, p),
                         s, 0, ageNullifier(_decodeProof(p)), e)
    /\ \A s \in Callers, e \in EventIds, p \in PassportProofs :
           C24_CallEmits(verifyPassportDisclosureRes(s, e, p),
                         verifyPassportDisclosureEvents(s, e, p),
                         s, 1, passportNullifier(_decodeProof(p)), e)
C24_LogLists ==
    \A i \in 1..Len(eventLog) :
        LET ev == eventLog[i] IN
        /\ C24_Slot(ev) \in C24_Ledger
        /\ C24_IsProofVerified(ev) =>
               /\ i > 1
               /\ C24_ByGateway(eventLog[i - 1])
               /\ C24_Slot(eventLog[i - 1]) = C24_Slot(ev)
        /\ C24_ByGateway(ev) =>
               /\ i < Len(eventLog)
               /\ C24_IsProofVerified(eventLog[i + 1])
        /\ \A j \in 1..Len(eventLog) :
               (j # i /\ C24_IsProofVerified(ev) = C24_IsProofVerified(eventLog[j]))
                   => C24_Slot(eventLog[j]) # C24_Slot(ev)
C24_Step ==
    LET added == SubSeq(eventLog', Len(eventLog) + 1, Len(eventLog'))
    IN  /\ Len(eventLog') >= Len(eventLog)
        /\ SubSeq(eventLog', 1, Len(eventLog)) = eventLog
        /\ (C24_Ledger' # C24_Ledger) <=> (added # << >>)
        /\ added # << >> =>
               /\ C24_Ledger' = C24_Ledger \cup {C24_Slot(added[1])}
               /\ C24_Slot(added[1]) \notin C24_Ledger
               /\ Len(added) = IF C24_ByGateway(added[1]) THEN 2 ELSE 1
               /\ ~C24_IsProofVerified(added[1])
C25_IsVerify(call) == call.fn = "MPassAgeVerifier.verifyAgeProof"
C25_Nullifier(call) == call.input[2][2]
C25_UsedReverts ==
    /\ \A s \in Callers, ps \in AvPubSignals, acc \in BOOLEAN :
           avIsNullifierUsed(ps[2])
               => verifyAgeProofRes(s, ps, acc) = "Nullifier already used"
    /\ (C25_IsVerify(lastCall) /\ lastCall.ret = "true")
           => avIsNullifierUsed(C25_Nullifier(lastCall))
C25_Step ==
    /\ avNullifierUsed \subseteq avNullifierUsed'
    /\ (C25_IsVerify(lastCall') /\ lastCall'.ret = "true")
           => ~avIsNullifierUsed(C25_Nullifier(lastCall'))
    /\ (C25_IsVerify(lastCall') /\ avIsNullifierUsed(C25_Nullifier(lastCall')))
           => lastCall'.res = "Nullifier already used"
C25_AgeNullifierSingleUse == [](C25_UsedReverts) /\ [][C25_Step]_vars
\* a second caller presents an accepted proof carrying a nullifier that an
\* earlier call consumed, and is turned away
C25_Witness ==
    /\ C25_IsVerify(lastCall)
    /\ lastCall.input[1] = OwnerAddr
    /\ lastCall.input[3]
    /\ lastCall.input[2][3] = 1
    /\ lastCall.res = "Nullifier already used"
    /\ avNullifierUsed = {C25_Nullifier(lastCall)}

\* ---- C26 ---------------------------------------------------------------
\* C26: MPassAgeVerifier.verifyAgeProof reverts whenever the Groth16
\* verifier rejects the proof; it never returns false as an ordinary result.
C26_RejectedProofReverts ==
    (lastCall.fn = "MPassAgeVerifier.verifyAgeProof" /\ ~lastCall.input[3])
        => lastCall.ret = "reverted"

\* ---- C27 ---------------------------------------------------------------
\* C27: MPassAgeVerifier.verifyAgeProof returns true only for a statement
\* whose commitment is registered at the time of the call.
C27_TrueOnlyForRegistered ==
    (lastCall.fn = "MPassAgeVerifier.verifyAgeProof" /\ lastCall.ret = "true")
        => isCredentialRegistered(lastCall.input[2][1])

\* ---- C28 ---------------------------------------------------------------
\* C28: MPassRegistry.isCredentialValid(user, h) is true exactly when h was
\* issued to that user, is not revoked, and expires strictly later than the
\* current time; a credential that has become invalid by revocation or by
\* the passing of its expiry is never valid again.
\* issued to the user: the hash is in one of the user's per-type lists
C28_IssuedTo(user, h) ==
    \E t \in ValidCredentialTypes :
        \E i \in 1..Len(getUserCredentials(user, t)) : getUserCredentials(user, t)[i] = h
C28_ValidExactlyWhen ==
    \A u \in Callers, h \in CredentialHashes :
        LET cred == getCredential(u, h) IN
        /\ C28_IssuedTo(u, h) <=> cred.issuedAt # 0
        /\ v1IsCredentialValid(u, h)
               <=> (C28_IssuedTo(u, h) /\ ~cred.revoked /\ cred.expiresAt > now)
C28_Step ==
    \A u \in Callers, h \in CredentialHashes :
        \* it becomes valid only by being issued, to that user, now
        /\ (~v1IsCredentialValid(u, h) /\ v1IsCredentialValid(u, h)')
               => /\ ~C28_IssuedTo(u, h)
                  /\ getCredential(u, h)'.issuedAt = now
        \* issued and invalid, it stays invalid
        /\ (C28_IssuedTo(u, h) /\ ~v1IsCredentialValid(u, h))
               => ~v1IsCredentialValid(u, h)'
        \* neither re-issued nor un-revoked
        /\ C28_IssuedTo(u, h)
               => /\ C28_IssuedTo(u, h)'
                  /\ getCredential(u, h)'.issuedAt = getCredential(u, h).issuedAt
                  /\ getCredential(u, h)'.expiresAt = getCredential(u, h).expiresAt
                  /\ getCredential(u, h).revoked => getCredential(u, h)'.revoked
C28_ValidityOverTime == [](C28_ValidExactlyWhen) /\ [][C28_Step]_vars
\* one user's credential has expired unrevoked while the other user's
\* credential with the same hash is still valid
C28_Witness ==
    /\ C28_IssuedTo(UserAddr, TestCredentialHash)
    /\ ~getCredential(UserAddr, TestCredentialHash).revoked
    /\ getCredential(UserAddr, TestCredentialHash).expiresAt = now
    /\ ~v1IsCredentialValid(UserAddr, TestCredentialHash)
    /\ v1IsCredentialValid(OwnerAddr, TestCredentialHash)

\* ---- C29 ---------------------------------------------------------------
\* C29: MPassRegistry.getUserCredentials(user, type) holds the hashes of
\* exactly the credentials of that type issued to that user, each once, in
\* issuance order: a successful issueCredential appends its hash to the list
\* of its user and type, a failed one adds nothing, revocation removes
\* nothing.
C29_Has(list, h) == \E i \in 1..Len(list) : list[i] = h
C29_ExactlyTheIssued ==
    \A u \in Callers, t \in ValidCredentialTypes :
        LET list == getUserCredentials(u, t) IN
        /\ \A i \in 1..Len(list), j \in 1..Len(list) : list[i] = list[j] => i = j
        /\ \A h \in IssuedHashes :
               C29_Has(list, h) <=> /\ getCredential(u, h).issuedAt # 0
                                    /\ getCredential(u, h).credentialType = t
C29_FailedAddsNothing ==
    \A s \in Callers, u \in Callers, h \in IssuedHashes,
       t \in CredentialTypes, x \in {1, MaxTime + 1} :
        issueCredentialRes(s, u, h, t, x) # "ok"
            => issueCredentialEvents(s, u, h, t, x) = << >>
C29_Step ==
    \A u \in Callers, t \in ValidCredentialTypes :
        LET list == getUserCredentials(u, t)
            newly == {h \in IssuedHashes :
                         /\ getCredential(u, h).issuedAt = 0
                         /\ getCredential(u, h)'.issuedAt # 0
                         /\ getCredential(u, h)'.credentialType = t}
        IN  /\ newly = {} => getUserCredentials(u, t)' = list
            /\ \A h \in newly : getUserCredentials(u, t)' = Append(list, h)
C29_ListsIssuedInOrder ==
    [](C29_ExactlyTheIssued /\ C29_FailedAddsNothing) /\ [][C29_Step]_vars
\* the second hash was issued before the first and then revoked: it is
\* still listed, and listed first
C29_Witness ==
    /\ getUserCredentials(UserAddr, CRED_AGE)
           = <<TestCredentialHash + 1, TestCredentialHash>>
    /\ getCredential(UserAddr, TestCredentialHash + 1).revoked
    /\ getUserCredentials(OwnerAddr, CRED_AGE) = << >>

\* ---- the sparse tree, as the claims speak of it ---------------------------
\* the last run was one of the sparse non-inclusion verifier
SparseRan == circuitRun.template = "SparseMerkleTreeNonInclusion"
\* the verifier returned valid: its callers constrain valid === 1
ReturnedValid == circuitRun.valid = Num(1)
\* the leaf on the query key's own path in the tree the root belongs to
LeafOnPath == SmtLeaves(circuitRun.occupant)[circuitRun.key[2]]

\* ---- C31 ---------------------------------------------------------------
\* C31: if commitment k is included in the revocation tree with root V (the
\* leaf on k's path is H(k, v)), then no choice of siblings, empty-slot
\* flag, occupant key and occupant value makes the sparse non-inclusion
\* verifier return valid for k against V.
C31_IncludedNeverValid ==
    (/\ SparseRan
     /\ circuitRun.root = SmtRoot(circuitRun.occupant)
     /\ LeafOnPath = Poseidon(<<circuitRun.key, Num(1)>>))
        => ~ReturnedValid

\* ---- C33 ---------------------------------------------------------------
\* C33: the sparse non-inclusion verifier returns valid exactly when the
\* root recomputed from the leaf (zero if the empty-slot flag is set,
\* otherwise H(occupant key, occupant value)) along the query key's own
\* path bits equals the claimed root and (the flag is set or the occupant
\* key differs from the query key).
C33_FlagSet == circuitRun.isOld0 = Num(1)
C33_Recomputed ==
    MerkleTreeInclusionProof(SmtLevels,
        IF C33_FlagSet THEN Num(0)
        ELSE Poseidon(<<circuitRun.oldKey, circuitRun.oldValue>>),
        circuitRun.siblings, Num2Bits(SmtLevels, circuitRun.key))
C33_ValidExactlyWhen ==
    SparseRan =>
        (ReturnedValid <=> /\ C33_Recomputed = circuitRun.root
                           /\ (C33_FlagSet \/ circuitRun.oldKey # circuitRun.key))

\* ---- C32 ---------------------------------------------------------------
\* C32: once the gateway has accepted a statement with nullifier n in scope
\* e, no later sequence of operations, the owner's administration of the
\* gateway and the registry included, lets the same gateway accept n in
\* scope e again.  An acceptance is a ProofVerified event of the gateway.
C32_Accepted(i) == eventLog[i][1] = "ProofVerified"
C32_AcceptedOnce ==
    \A i \in 1..Len(eventLog), j \in 1..Len(eventLog) :
        (/\ C32_Accepted(i) /\ C32_Accepted(j)
         /\ eventLog[i][4] = eventLog[j][4]
         /\ eventLog[i][5] = eventLog[j][5]) => i = j

\* ---- C34 ---------------------------------------------------------------
\* C34: for one secret, the nullifiers of production circuits of different
\* proof types never coincide, whatever event ids the two circuits are
\* given: a run of one type after a run of another type with the same
\* secret yields a different nullifier.
C34_Prod(run) == run.template \in ProdTemplates
C34_NullifiersDiffer ==
    [][(/\ C34_Prod(circuitRun) /\ C34_Prod(circuitRun')
        /\ circuitRun.template # circuitRun'.template
        /\ circuitRun.secret = circuitRun'.secret)
           => circuitRun.nullifier # circuitRun'.nullifier]_vars

\* ---- C35 ---------------------------------------------------------------
\* C35: when updateRoots and gateway verifications interleave, the outcome
\* of a verification's freshness gate depends only on the roots the registry
\* holds at the moment the verification is executed, which is its single
\* freshness read: it is rejected as stale exactly when its statement's
\* roots differ from those roots, whatever the roots were when it was
\* submitted; a verification that succeeded stays succeeded, its nullifier
\* consumed, when the roots advance afterwards.
C35_Stale == {"Invalid registry root", "Invalid revocation root"}
C35_InFlight == Len(outcome) = 1 /\ outcome[1] = "pending"
C35_Done == Len(outcome) = 1 /\ outcome[1] # "pending"
C35_Consumed(c) ==
    IF c.eventId = 0 THEN isNullifierUsed(callNullifier(c))
    ELSE isEventNullifierUsed(c.eventId, callNullifier(c))
C35_Step ==
    /\ (C35_InFlight /\ outcome'[1] # "pending") =>
           \* the execution: the gate is decided by the roots of this moment
           \* (a gateway without a verifier contract stops before the gate)
           /\ outcome'[1] = "Age verifier not set" <=> ageVerifier = ZeroAddr
           /\ outcome'[1] \in C35_Stale <=>
                  (ageVerifier # ZeroAddr /\ statementRoots(pending[1]) # liveRoots)
           /\ outcome'[1] = "ok" =>
                  /\ statementRoots(pending[1]) = liveRoots
                  /\ C35_Consumed(pending[1])'
           /\ liveRoots' = liveRoots
    /\ (C35_Done /\ C35_Done') =>
           \* afterwards, until the next submission: the outcome stands, the
           \* nullifier stays consumed
           /\ outcome' = outcome /\ pending' = pending
           /\ (outcome[1] = "ok" => C35_Consumed(pending[1])')
C35_FreshnessAtExecution == [][C35_Step]_vars
\* a verification succeeded and the roots have advanced since, away from
\* the roots of its statement
C35_Witness ==
    /\ C35_Done /\ outcome[1] = "ok"
    /\ statementRoots(pending[1]) # liveRoots
    /\ C35_Consumed(pending[1])
    /\ roots.updatedAt # 0

\* ---- C36 ---------------------------------------------------------------
\* C36: verifyAgeWithNullifier rejects, consuming no nullifier, every call
\* whose statement embeds an age threshold lower than the minimum age the
\* caller requests; a call succeeds only if the statement's threshold is at
\* least the caller's minAge.
C36_AgeCalls == {call \in AllGatewayCalls : call.fn = "verifyAgeWithNullifier"}
C36_HasThreshold(call) ==
    call.proof.length >= ProofHeadBytes /\ Len(callInputs(call)) >= 1
C36_Threshold(call) == callInputs(call)[1]
C36_Gate ==
    \A call \in C36_AgeCalls :
        /\ callRes(call) = "ok" =>
               C36_HasThreshold(call) /\ C36_Threshold(call) >= call.minAge
        /\ (C36_HasThreshold(call) /\ C36_Threshold(call) < call.minAge) =>
               callRes(call) \in {"Age verifier not set", "Invalid public inputs",
                                  "Age below minimum"}
C36_Step ==
    <<nullifierUsed, eventNullifierUsed>>' # <<nullifierUsed, eventNullifierUsed>> =>
        \A call \in C36_AgeCalls :
            callStep(call) =>
                C36_HasThreshold(call) /\ C36_Threshold(call) >= call.minAge
C36_ThresholdGate == [](C36_Gate) /\ [][C36_Step]_vars
\* the nullifier is consumed in scope 1; for scope 0, with everything else
\* in order, threshold 0 against minAge 1 is rejected, threshold 1 against
\* minAge 1 and minAge 0 would be accepted
C36_Witness ==
    /\ ageVerifier = Groth16Addr
    /\ isEventNullifierUsed(1, TestNullifier) /\ ~isNullifierUsed(TestNullifier)
    /\ verifyAgeWithNullifierRes(UserAddr, 1, 0,
           ProofOf(AgeStatement(0, roots.registryRoot, roots.revocationRoot, 0,
                                TestNullifier), TRUE)) = "Age below minimum"
    /\ verifyAgeWithNullifierRes(UserAddr, 1, 0,
           ProofOf(AgeStatement(1, roots.registryRoot, roots.revocationRoot, 0,
                                TestNullifier), TRUE)) = "ok"
    /\ verifyAgeWithNullifierRes(UserAddr, 0, 0,
           ProofOf(AgeStatement(1, roots.registryRoot, roots.revocationRoot, 0,
                                TestNullifier), TRUE)) = "ok"

\* ---- C37 ---------------------------------------------------------------
\* C37: the outcome of a gateway verification is independent of the
\* registry's registered and revoked maps: a step that changes these maps
\* and leaves the Roots Record, both nullifier ledgers and the gateway's
\* configuration as they are changes the result of no call, so a revocation
\* without a root update never causes a proof to be rejected.
C37_Mirror == <<credentialExists, credentialRevoked>>
C37_Read == <<roots.registryRoot, roots.revocationRoot, nullifierUsed, eventNullifierUsed,
              gatewayVars>>
C37_Step ==
    (C37_Mirror' # C37_Mirror /\ C37_Read' = C37_Read) =>
        \A call \in AllGatewayCalls : callRes(call)' = callRes(call)
\* no operation changes the maps together with what the gateway reads
C37_Apart ==
    C37_Mirror' # C37_Mirror => C37_Read' = C37_Read
C37_MirrorIndependent == [][C37_Step /\ C37_Apart]_vars
\* a credential is revoked, the roots were never updated, and a statement
\* with the initial roots is accepted
C37_Witness ==
    /\ credentialRevoked # {}
    /\ roots.updatedAt = 0
    /\ ageVerifier = Groth16Addr
    /\ verifyAgeWithNullifierRes(UserAddr, 0, 0,
           ProofOf(AgeStatement(0, 0, 0, 0, TestNullifier), TRUE)) = "ok"

\* ---- C38 ---------------------------------------------------------------
\* C38: a statement rejected as stale becomes acceptable again when a later
\* updateRoots returns both roots to the values the statement embeds,
\* provided its nullifier is still unconsumed in its scope: freshness
\* compares the current root values only, not a version of the roots or the
\* time of their update.
C38_Stale == {"Invalid registry root", "Invalid revocation root"}
\* the statement's scope is the call's and its nullifier is unconsumed there
C38_Unconsumed(c) ==
    /\ statementScope(c) = c.eventId
    /\ IF c.eventId = 0 THEN ~isNullifierUsed(callNullifier(c))
       ELSE ~isEventNullifierUsed(c.eventId, callNullifier(c))
C38_ValuesOnly ==
    \A c \in InFlightCalls :
        (ageVerifier = Groth16Addr /\ C38_Unconsumed(c)) =>
            /\ callRes(c) = "ok" <=> statementRoots(c) = liveRoots
            /\ callRes(c) \in C38_Stale <=> statementRoots(c) # liveRoots
C38_Step ==
    liveRoots' # liveRoots =>
        \A c \in InFlightCalls :
            (/\ callRes(c) \in C38_Stale
             /\ statementRoots(c) = liveRoots'
             /\ C38_Unconsumed(c)) => callRes(c)' = "ok"
C38_FreshAgain == [](C38_ValuesOnly) /\ [][C38_Step]_vars
\* the roots were (0, 0) at deployment, then (1, 1) was published, then
\* (0, 0) again in a later block: a statement for (0, 0), stale in between,
\* is accepted
C38_Witness ==
    /\ Len(eventLog) = 2
    /\ eventLog[1] = <<"RootsUpdated", 1, 1, 1>>
    /\ eventLog[2] = <<"RootsUpdated", 0, 0, 2>>
    /\ now = 2 /\ roots.updatedAt = 2
    /\ ~isNullifierUsed(TestNullifier)
    /\ verifyAgeWithNullifierRes(UserAddr, 0, 0,
           ProofOf(AgeStatement(0, 0, 0, 0, TestNullifier), TRUE)) = "ok"


\* ---- the proof history in the browser ---------------------------------
AppFrame ==
    UNCHANGED <<sysVars, raceVars, v1Vars, avVars, eventLog, circuitRun, lastCall, sbtVars>>
HistoryNext ==
    \/ ClockTick /\ AppFrame
    \/ saveProofToHistory(SavedProof, "age", TRUE, NoItem, 0) /\ AppFrame
    \/ clearProofHistory /\ AppFrame
    \/ \E data \in Backups : importCredential(data) /\ AppFrame
    \/ exportCredential # NoItem /\ importCredential(exportCredential[1]) /\ AppFrame
HistorySpec == Init /\ [][HistoryNext]_vars

\* C39: after any sequence of saveProofToHistory, importCredential and
\* clearProofHistory calls the stored proof history holds at most 50 entries,
\* ordered newest first (no entry is older than the one after it).
C39_NewestFirst(history) ==
    \A i \in 1..(Len(history) - 1) : history[i].timestamp >= history[i + 1].timestamp
C39_CappedNewestFirst ==
    /\ Len(getProofHistory) <= HistoryCap
    /\ C39_NewestFirst(getProofHistory)

\* ---- the soul-bound token ----------------------------------------------
SbtFrame ==
    UNCHANGED <<sysVars, raceVars, v1Vars, avVars, eventLog, circuitRun, appVars>>
SbtTopics == {AGE_18_PLUS, JURISDICTION}
SbtNext ==
    \/ \E s \in Callers, v \in {GatewayAddr, ZeroAddr} : sbtSetVerifier(s, v) /\ SbtFrame
    \/ \E s \in {GatewayAddr, UserAddr}, u \in Addresses, t \in SbtTopics :
           /\ (userToken[u] # 0 \/ _tokenIdCounter <= MaxTokens)
           /\ mintSBT(s, u, t, 1, TestNullifier, 0)
           /\ SbtFrame
    \/ \E s \in {GatewayAddr, UserAddr}, id \in 1..MaxTokens, t \in SbtTopics :
           addClaim(s, id, t, 1, TestNullifier, 0) /\ SbtFrame
    \/ \E s \in {GatewayAddr, UserAddr}, id \in 1..MaxTokens, t \in SbtTopics :
           revokeClaim(s, id, t) /\ SbtFrame
    \/ \E s \in Callers, to \in Addresses, id \in 1..MaxTokens :
           transferFrom(s, s, to, id) /\ SbtFrame
    \/ \E id \in 1..MaxTokens : approve(UserAddr, OwnerAddr, id) /\ SbtFrame
    \/ \E b \in BOOLEAN : setApprovalForAll(UserAddr, OwnerAddr, b) /\ SbtFrame
SbtSpec == Init /\ [][SbtNext]_vars

\* C40: MPassSBT tokens are soul-bound and one per address.  In every
\* reachable state every address u with userToken[u] # 0 is the owner of
\* token userToken[u] and owns no other token; no call changes the owner of
\* a minted token; and a mintSBT for a user who already has a token returns
\* that token, writes the claim into it and mints nothing.
C40_OnePerAddress ==
    \A u \in Addresses :
        userToken[u] # 0 =>
            /\ _ownerOf(userToken[u]) = u
            /\ \A t \in TokenIds : _ownerOf(t) = u => t = userToken[u]
            /\ _balances[u] = 1
C40_OwnerKept ==
    \A t \in TokenIds : _ownerOf(t) # ZeroAddr => _owners'[t] = _owners[t]
C40_MintAddsClaim ==
    \A u \in Addresses, topic \in Topics :
        (/\ lastCall'.fn = "MPassSBT.mintSBT"
         /\ lastCall'.res = "ok"
         /\ lastCall'.input = <<u, topic>>
         /\ userToken[u] # 0) =>
            /\ lastCall'.ret = userToken[u]
            /\ UNCHANGED <<_tokenIdCounter, userToken, _owners, _balances>>
            /\ claims'[<<userToken[u], topic>>].topic = topic
            /\ claims'[<<userToken[u], topic>>].issuedAt = now
            /\ Has(tokens'[userToken[u]].credentialTypes, topic)
            /\ \A k \in TokenIds \X Topics :
                   k # <<userToken[u], topic>> => claims'[k] = claims[k]
C40_SoulBound ==
    [](C40_OnePerAddress) /\ [][C40_OwnerKept /\ C40_MintAddsClaim]_vars
\* both accounts hold a token, and a second mintSBT for the holder of token 1
\* has put a second claim into it
C40_Witness ==
    /\ lastCall.fn = "MPassSBT.mintSBT"
    /\ lastCall.res = "ok"
    /\ lastCall.ret = 1
    /\ _tokenIdCounter = 3
    /\ Len(tokens[1].credentialTypes) = 2
    /\ \A topic \in SbtTopics : claims[<<1, topic>>].issuedAt # 0
====
